---------------------------- MODULE Spec2Model ----------------------------
(***************************************************************************)
(* Model of the bgammon game core (Game: board, dice, pending moves with   *)
(* their reversal stacks, LegalMoves / ExpandMove / AddMoves / NextTurn /  *)
(* Reset) and of the session wrapper serverGame (seats, roll).             *)
(*                                                                         *)
(* A Game value is a record; the operators below take a Game record and    *)
(* return what the Go method returns, so Game.Copy() is the record itself. *)
(* Boards are functions over the slots 0..27, moves are pairs <<from,to>>. *)
(***************************************************************************)
EXTENDS Integers, Sequences, FiniteSets, TLC

(***************************************************************************)
(* Program constants.                                                      *)
(***************************************************************************)
VariantBackgammon == 0
VariantAceyDeucey == 1
VariantTabula == 2

\* board.go is not part of the sources at hand: the slot numbering is the
\* one SpaceDiff and IterateSpaces rely on (homes at 0 and 25, bars above).
SpaceHomePlayer == 0
SpaceHomeOpponent == 25
SpaceBarPlayer == 26
SpaceBarOpponent == 27
BoardSpaces == 28
DieSides == 6

Slots == 0 .. (BoardSpaces - 1)
Variants == {VariantBackgammon, VariantAceyDeucey, VariantTabula}

(***************************************************************************)
(* Helpers on sequences and boards.                                        *)
(***************************************************************************)
RemoveAt(s, i) == SubSeq(s, 1, i - 1) \o SubSeq(s, i + 1, Len(s))

\* Least index whose element satisfies Test, 0 when there is none
\* (a Go "for i, roll := range rolls { if ... }" that stops at the first hit).
FirstIndex(s, Test(_)) ==
    IF \E i \in 1 .. Len(s) : Test(s[i])
    THEN CHOOSE i \in 1 .. Len(s) : Test(s[i]) /\ \A j \in 1 .. (i - 1) : ~Test(s[j])
    ELSE 0

CountIn(s, Test(_)) == Cardinality({i \in 1 .. Len(s) : Test(s[i])})

InSeq(s, x) == \E i \in 1 .. Len(s) : s[i] = x

MkBoard(pairs) ==
    [s \in Slots |-> IF \E p \in pairs : p[1] = s
                     THEN (CHOOSE p \in pairs : p[1] = s)[2]
                     ELSE 0]

minInt(a, b) == IF a < b THEN a ELSE b
maxInt(a, b) == IF a > b THEN a ELSE b

(***************************************************************************)
(* Board model.                                                            *)
(***************************************************************************)
NewBoard(variant) ==
    IF variant = VariantBackgammon
    THEN MkBoard({<<24, 2>>, <<1, -2>>, <<19, -5>>, <<6, 5>>,
                  <<17, -3>>, <<8, 3>>, <<13, 5>>, <<12, -5>>})
    ELSE MkBoard({<<SpaceHomePlayer, 15>>, <<SpaceHomeOpponent, -15>>})

\* Returns <<from, to>>.
HomeRange(player, variant) ==
    IF player = 2 \/ variant = VariantTabula THEN <<24, 19>> ELSE <<1, 6>>

PlayerCheckers(checkers, player) ==
    IF player = 1
    THEN (IF checkers > 0 THEN checkers ELSE 0)
    ELSE (IF checkers < 0 THEN checkers * (-1) ELSE 0)

OpponentCheckers(checkers, player) ==
    IF player = 2
    THEN (IF checkers > 0 THEN checkers ELSE 0)
    ELSE (IF checkers < 0 THEN checkers * (-1) ELSE 0)

SpaceDiff(from, to, variant) ==
    CASE from < 0 \/ from > 27 \/ to < 0 \/ to > 27 -> 0
      [] to = SpaceBarPlayer \/ to = SpaceBarOpponent -> 0
      [] (from = SpaceBarPlayer \/ from = SpaceBarOpponent)
           /\ (to = SpaceBarPlayer \/ to = SpaceBarOpponent
               \/ to = SpaceHomePlayer \/ to = SpaceHomeOpponent) -> 0
      [] OTHER ->
           IF to = SpaceHomePlayer
           THEN (IF variant = VariantTabula THEN 25 - from ELSE from)
           ELSE IF to = SpaceHomeOpponent
           THEN 25 - from
           ELSE IF from = SpaceHomePlayer \/ from = SpaceHomeOpponent
           THEN (IF variant = VariantAceyDeucey
                 THEN (IF from = SpaceHomePlayer THEN 25 - to ELSE to)
                 ELSE IF variant = VariantTabula THEN to ELSE 0)
           ELSE IF from = SpaceBarPlayer
           THEN (IF variant = VariantTabula THEN to ELSE 25 - to)
           ELSE IF from = SpaceBarOpponent
           THEN to
           ELSE (IF to - from < 0 THEN (to - from) * (-1) ELSE to - from)

\* The spaces IterateSpaces hands to its callback, in order (the callbacks of
\* LegalMoves do not read the step count).
IterateSpaces(from, to, variant) ==
    IF from = to \/ from < 0 \/ from > 25 \/ to < 0 \/ to > 25
    THEN << >>
    ELSE LET f == IF variant = VariantBackgammon
                  THEN (IF from = 0 THEN 1 ELSE IF from = 25 THEN 24 ELSE from)
                  ELSE from
         IN  IF to > f
             THEN [i \in 1 .. (to - f + 1) |-> f + i - 1]
             ELSE [i \in 1 .. (f - to + 1) |-> f - i + 1]

\* FlipSpace that mirrors the points in tabula too.
FlipSpaceMirroring(space, player, variant) ==
    IF player = 1 THEN space
    ELSE IF space < 1 \/ space > 24
    THEN (CASE space = SpaceHomePlayer -> SpaceHomeOpponent
            [] space = SpaceHomeOpponent -> SpaceHomePlayer
            [] space = SpaceBarPlayer -> SpaceBarOpponent
            [] space = SpaceBarOpponent -> SpaceBarPlayer
            [] OTHER -> -1)
    ELSE 24 - space + 1

FlipSpace(space, player, variant) ==
    IF player = 1 THEN space
    ELSE IF space < 1 \/ space > 24
    THEN (CASE space = SpaceHomePlayer -> SpaceHomeOpponent
            [] space = SpaceHomeOpponent -> SpaceHomePlayer
            [] space = SpaceBarPlayer -> SpaceBarOpponent
            [] space = SpaceBarOpponent -> SpaceBarPlayer
            [] OTHER -> -1)
    ELSE IF variant = VariantTabula THEN space
    ELSE 24 - space + 1

(***************************************************************************)
(* Game state.                                                             *)
(***************************************************************************)
\* Player names: 0 is the empty name "".
NewGame(variant) ==
    [ Variant |-> variant,
      Board |-> NewBoard(variant),
      Name1 |-> 0,
      Name2 |-> 0,
      Entered1 |-> (variant = VariantBackgammon),
      Entered2 |-> (variant = VariantBackgammon),
      Turn |-> 0,
      Roll1 |-> 0,
      Roll2 |-> 0,
      Roll3 |-> 0,
      Moves |-> << >>,
      Winner |-> 0,
      Points |-> 1,
      DoubleValue |-> 1,
      DoublePlayer |-> 0,
      DoubleOffered |-> FALSE,
      Reroll |-> FALSE,
      boardStates |-> << >>,
      enteredStates |-> << >> ]

\* NextTurn without its guard on a finished game.
NextTurnUnguarded(g, reroll) ==
    [g EXCEPT !.Turn = IF reroll THEN g.Turn
                       ELSE IF g.Turn = 1 THEN 2 ELSE 1,
              !.Roll1 = 0, !.Roll2 = 0, !.Roll3 = 0,
              !.Moves = << >>,
              !.boardStates = << >>,
              !.enteredStates = << >>]

\* NextTurn that keeps the pending moves and their reversal stacks.
NextTurnKeepingMoves(g, reroll) ==
    IF g.Winner # 0 THEN g
    ELSE [g EXCEPT !.Turn = IF reroll THEN g.Turn
                            ELSE IF g.Turn = 1 THEN 2 ELSE 1,
                   !.Roll1 = 0, !.Roll2 = 0, !.Roll3 = 0]

NextTurn(g, reroll) ==
    IF g.Winner # 0 THEN g
    ELSE [g EXCEPT !.Turn = IF reroll THEN g.Turn
                            ELSE IF g.Turn = 1 THEN 2 ELSE 1,
                   !.Roll1 = 0, !.Roll2 = 0, !.Roll3 = 0,
                   !.Moves = << >>,
                   !.boardStates = << >>,
                   !.enteredStates = << >>]

\* Reset that leaves the doubling cube as the last match left it.
ResetKeepingCube(g) ==
    [g EXCEPT !.Entered1 = IF g.Variant # VariantBackgammon THEN FALSE ELSE g.Entered1,
              !.Entered2 = IF g.Variant # VariantBackgammon THEN FALSE ELSE g.Entered2,
              !.Board = NewBoard(g.Variant),
              !.Turn = 0,
              !.Roll1 = 0, !.Roll2 = 0, !.Roll3 = 0,
              !.Moves = << >>,
              !.Reroll = FALSE,
              !.boardStates = << >>,
              !.enteredStates = << >>]

Reset(g) ==
    [g EXCEPT !.Entered1 = IF g.Variant # VariantBackgammon THEN FALSE ELSE g.Entered1,
              !.Entered2 = IF g.Variant # VariantBackgammon THEN FALSE ELSE g.Entered2,
              !.Board = NewBoard(g.Variant),
              !.Turn = 0,
              !.Roll1 = 0, !.Roll2 = 0, !.Roll3 = 0,
              !.Moves = << >>,
              !.DoubleValue = 1,
              !.DoublePlayer = 0,
              !.DoubleOffered = FALSE,
              !.Reroll = FALSE,
              !.boardStates = << >>,
              !.enteredStates = << >>]

\* Number of the opponent of the turn player (opponentPlayer().Number).
opponentPlayer(g) == IF g.Turn = 2 THEN 1 ELSE 2

\* SecondHalf panics on a player other than 1 and 2; UnknownPlayer is that case.
UnknownPlayer(player) == player # 1 /\ player # 2

\* SecondHalf that does not look at the points 1..12.
SecondHalfNoScan(g, player, local) ==
    IF g.Variant # VariantTabula THEN FALSE
    ELSE IF player = 1 /\ g.Board[SpaceBarPlayer] # 0 THEN FALSE
    ELSE IF player = 1 /\ ~g.Entered1 /\ g.Board[SpaceHomePlayer] # 0 THEN FALSE
    ELSE IF player = 2 /\ g.Board[SpaceBarOpponent] # 0 THEN FALSE
    ELSE IF player = 2 /\ ~g.Entered2 /\ g.Board[SpaceHomeOpponent] # 0 THEN FALSE
    ELSE TRUE

SecondHalf(g, player, local) ==
    IF g.Variant # VariantTabula THEN FALSE
    ELSE IF player = 1 /\ g.Board[SpaceBarPlayer] # 0 THEN FALSE
    ELSE IF player = 1 /\ ~g.Entered1 /\ g.Board[SpaceHomePlayer] # 0 THEN FALSE
    ELSE IF player = 2 /\ g.Board[SpaceBarOpponent] # 0 THEN FALSE
    ELSE IF player = 2 /\ ~g.Entered2 /\ g.Board[SpaceHomeOpponent] # 0 THEN FALSE
    ELSE \A space \in 1 .. 12 :
            ~((player = 1 /\ g.Board[space] > 0) \/ (player = 2 /\ g.Board[space] < 0))

\* setEntered that does not look at the home trays.
setEnteredAnyTray(g) ==
    IF g.Variant = VariantBackgammon THEN g
    ELSE IF ~g.Entered1 THEN [g EXCEPT !.Entered1 = TRUE]
    ELSE IF ~g.Entered2 THEN [g EXCEPT !.Entered2 = TRUE]
    ELSE g

setEntered(g) ==
    IF g.Variant = VariantBackgammon THEN g
    ELSE IF ~g.Entered1 /\ g.Board[SpaceHomePlayer] = 0 THEN [g EXCEPT !.Entered1 = TRUE]
    ELSE IF ~g.Entered2 /\ g.Board[SpaceHomeOpponent] = 0 THEN [g EXCEPT !.Entered2 = TRUE]
    ELSE g

\* addMove with a hit that takes the point but leaves the bar alone.
addMoveNoBar(g, move) ==
    LET opponentCheckers == OpponentCheckers(g.Board[move[2]], g.Turn)
        delta == IF g.Turn = 2 THEN -1 ELSE 1
        b1 == [g.Board EXCEPT ![move[1]] = @ - delta]
        b2 == IF opponentCheckers = 1
              THEN [b1 EXCEPT ![move[2]] = delta]
              ELSE [b1 EXCEPT ![move[2]] = @ + delta]
    IN  IF opponentCheckers > 1
        THEN [ok |-> FALSE, g |-> g]
        ELSE [ok |-> TRUE,
              g |-> setEntered([g EXCEPT
                        !.boardStates = Append(@, g.Board),
                        !.enteredStates = Append(@, <<g.Entered1, g.Entered2>>),
                        !.Board = b2,
                        !.Moves = Append(@, <<move[1], move[2]>>)])]

\* addMove that records no snapshot of the Entered flags.
addMoveNoEnteredState(g, move) ==
    LET opponentCheckers == OpponentCheckers(g.Board[move[2]], g.Turn)
        delta == IF g.Turn = 2 THEN -1 ELSE 1
        barSpace == IF g.Turn = 2 THEN SpaceBarPlayer ELSE SpaceBarOpponent
        b1 == [g.Board EXCEPT ![move[1]] = @ - delta]
        b2 == IF opponentCheckers = 1
              THEN [[b1 EXCEPT ![move[2]] = delta] EXCEPT ![barSpace] = @ + delta * (-1)]
              ELSE [b1 EXCEPT ![move[2]] = @ + delta]
    IN  IF opponentCheckers > 1
        THEN [ok |-> FALSE, g |-> g]
        ELSE [ok |-> TRUE,
              g |-> setEntered([g EXCEPT
                        !.boardStates = Append(@, g.Board),
                        !.Board = b2,
                        !.Moves = Append(@, <<move[1], move[2]>>)])]

\* Returns [ok, g]: the method's result and the receiver afterwards.
addMove(g, move) ==
    LET opponentCheckers == OpponentCheckers(g.Board[move[2]], g.Turn)
        delta == IF g.Turn = 2 THEN -1 ELSE 1
        barSpace == IF g.Turn = 2 THEN SpaceBarPlayer ELSE SpaceBarOpponent
        b1 == [g.Board EXCEPT ![move[1]] = @ - delta]
        b2 == IF opponentCheckers = 1
              THEN [[b1 EXCEPT ![move[2]] = delta] EXCEPT ![barSpace] = @ + delta * (-1)]
              ELSE [b1 EXCEPT ![move[2]] = @ + delta]
    IN  IF opponentCheckers > 1
        THEN [ok |-> FALSE, g |-> g]
        ELSE [ok |-> TRUE,
              g |-> setEntered([g EXCEPT
                        !.boardStates = Append(@, g.Board),
                        !.enteredStates = Append(@, <<g.Entered1, g.Entered2>>),
                        !.Board = b2,
                        !.Moves = Append(@, <<move[1], move[2]>>)])]


(***************************************************************************)
(* Dice.                                                                   *)
(***************************************************************************)
\* useDiceRoll that finds the pip of a move and leaves it among the rolls.
useDiceRollKeeping(g, rolls, from, to) ==
    IF to = SpaceHomePlayer \/ to = SpaceHomeOpponent
    THEN LET needRoll == IF to = SpaceHomeOpponent \/ g.Variant = VariantTabula
                         THEN 25 - from ELSE from
         IN  [ok |-> \E i \in 1 .. Len(rolls) : rolls[i] >= needRoll, rolls |-> rolls]
    ELSE [ok |-> InSeq(rolls, SpaceDiff(from, to, g.Variant)), rolls |-> rolls]

\* The closure useDiceRoll of DiceRolls: [ok, rolls] after consuming one pip
\* for the pending move from -> to.
useDiceRoll(g, rolls, from, to) ==
    IF to = SpaceHomePlayer \/ to = SpaceHomeOpponent
    THEN LET needRoll == IF to = SpaceHomeOpponent \/ g.Variant = VariantTabula
                         THEN 25 - from ELSE from
             Exact(roll) == roll = needRoll
             Greater(roll) == roll > needRoll
             i == FirstIndex(rolls, Exact)
             j == FirstIndex(rolls, Greater)
         IN  IF i # 0 THEN [ok |-> TRUE, rolls |-> RemoveAt(rolls, i)]
             ELSE IF j # 0 THEN [ok |-> TRUE, rolls |-> RemoveAt(rolls, j)]
             ELSE [ok |-> FALSE, rolls |-> rolls]
    ELSE LET diff == SpaceDiff(from, to, g.Variant)
             Exact(roll) == roll = diff
             i == FirstIndex(rolls, Exact)
         IN  IF i # 0 THEN [ok |-> TRUE, rolls |-> RemoveAt(rolls, i)]
             ELSE [ok |-> FALSE, rolls |-> rolls]

RECURSIVE useMoves(_, _, _)
useMoves(g, rolls, k) ==
    IF k > Len(g.Moves) THEN rolls
    ELSE LET r == useDiceRoll(g, rolls, g.Moves[k][1], g.Moves[k][2])
         IN  IF ~r.ok THEN << >> ELSE useMoves(g, r.rolls, k + 1)

DiceRolls(g) ==
    LET rolls == IF g.Variant = VariantTabula THEN <<g.Roll1, g.Roll2, g.Roll3>>
                 ELSE IF g.Roll1 = g.Roll2 THEN <<g.Roll1, g.Roll2, g.Roll1, g.Roll2>>
                 ELSE <<g.Roll1, g.Roll2>>
    IN  useMoves(g, rolls, 1)

\* MayBearOff that does not look for checkers outside the home quadrant.
MayBearOffAnywhere(g, player, local) ==
    IF PlayerCheckers(g.Board[SpaceBarPlayer], player) > 0
         \/ PlayerCheckers(g.Board[SpaceBarOpponent], player) > 0
    THEN FALSE
    ELSE IF (player = 1 /\ ~g.Entered1) \/ (player = 2 /\ ~g.Entered2)
    THEN FALSE
    ELSE IF g.Variant = VariantTabula
    THEN SecondHalf(g, player, local)
    ELSE TRUE

MayBearOff(g, player, local) ==
    IF PlayerCheckers(g.Board[SpaceBarPlayer], player) > 0
         \/ PlayerCheckers(g.Board[SpaceBarOpponent], player) > 0
    THEN FALSE
    ELSE IF (player = 1 /\ ~g.Entered1) \/ (player = 2 /\ ~g.Entered2)
    THEN FALSE
    ELSE IF g.Variant = VariantTabula
    THEN SecondHalf(g, player, local)
    ELSE LET hr == HomeRange(player, g.Variant)
             homeStart == IF local THEN 1 ELSE minInt(hr[1], hr[2])
             homeEnd == IF local THEN 6 ELSE maxInt(hr[1], hr[2])
         IN  \A i \in 1 .. 24 :
                ~((i < homeStart \/ i > homeEnd) /\ PlayerCheckers(g.Board[i], player) > 0)

\* HaveDiceRoll and HaveBearOffDiceRoll with rolls = g.DiceRolls(): LegalMoves
\* queries them for every space of an unchanged game, so the pips are the
\* same in every query.
haveDiceRollOf(g, rolls, from, to) ==
    IF g.Variant = VariantTabula /\ to > 12 /\ to < 25
         /\ ((g.Turn = 1 /\ ~g.Entered1) \/ (g.Turn = 2 /\ ~g.Entered2))
    THEN 0
    ELSE IF (to = SpaceHomePlayer \/ to = SpaceHomeOpponent) /\ ~MayBearOff(g, g.Turn, FALSE)
    THEN 0
    ELSE LET diff == SpaceDiff(from, to, g.Variant)
             Match(roll) == roll = diff
         IN  IF diff = 0 THEN 0 ELSE CountIn(rolls, Match)

haveBearOffDiceRollOf(g, rolls, diff) ==
    LET Match(roll) == roll = diff \/ (roll > diff /\ g.Variant = VariantBackgammon)
    IN  IF diff = 0 THEN 0 ELSE CountIn(rolls, Match)

HaveDiceRoll(g, from, to) == haveDiceRollOf(g, DiceRolls(g), from, to)

HaveBearOffDiceRoll(g, diff) == haveBearOffDiceRollOf(g, DiceRolls(g), diff)

(***************************************************************************)
(* Legal moves.                                                            *)
(***************************************************************************)
\* Element 0 of the list _totalMoves returns: the sequence it appends first,
\* moves followed by move.  _totalMoves returns allMoves, not the list it
\* deduplicates, so this is what LegalMoves measures with len(allMoves[0]).
totalMovesFirst(moves, move) == Append(moves, move)

\* mustEnterBar that never finds a checker on the bar.
mustEnterBarNever(g) == -1

\* The bar the turn player must enter from, -1 when there is none.
mustEnterBar(g) ==
    IF PlayerCheckers(g.Board[SpaceBarPlayer], g.Turn) > 0 THEN SpaceBarPlayer
    ELSE IF PlayerCheckers(g.Board[SpaceBarOpponent], g.Turn) > 0 THEN SpaceBarOpponent
    ELSE -1

\* The moves LegalMoves collects in its "must enter from bar" branch.
enterMoves(g, rolls, barSpace) ==
    LET hr == HomeRange(opponentPlayer(g), g.Variant)
        from == IF g.Variant = VariantTabula THEN 1 ELSE hr[1]
        to == IF g.Variant = VariantTabula THEN 6 ELSE hr[2]
        Open(homeSpace) == haveDiceRollOf(g, rolls, barSpace, homeSpace) # 0
                             /\ OpponentCheckers(g.Board[homeSpace], g.Turn) <= 1
        sel == SelectSeq(IterateSpaces(from, to, g.Variant), Open)
    IN  [i \in 1 .. Len(sel) |-> <<barSpace, sel[i]>>]

\* bearOffClear that finds the points farther from home empty.
bearOffClearAlways(g, space) == TRUE

\* Whether the bear-off from space is allowed to use a larger pip: no checker
\* of the turn player on a point farther from home.
bearOffClear(g, space) ==
    LET homeEnd == HomeRange(g.Turn, g.Variant)[2]
    IN  IF g.Turn = 2 /\ g.Variant # VariantTabula
        THEN \A homeSpace \in homeEnd .. (space - 1) :
                PlayerCheckers(g.Board[homeSpace], g.Turn) = 0
        ELSE \A homeSpace \in (space + 1) .. homeEnd :
                PlayerCheckers(g.Board[homeSpace], g.Turn) = 0

\* The moves one iteration of the loop over the board collects for space.
spaceMoves(g, rolls, space, mayBearOff) ==
    LET homeSpace == IF g.Turn = 2 THEN SpaceHomeOpponent ELSE SpaceHomePlayer
        entered == IF g.Turn = 2 THEN g.Entered2 ELSE g.Entered1
        skip == \/ space = SpaceBarPlayer \/ space = SpaceBarOpponent
                \/ /\ (space = SpaceHomePlayer \/ space = SpaceHomeOpponent)
                   /\ (g.Variant = VariantBackgammon \/ space # homeSpace \/ entered)
                \/ PlayerCheckers(g.Board[space], g.Turn) = 0
        bearOff ==
            IF mayBearOff
                 /\ haveBearOffDiceRollOf(g, rolls, SpaceDiff(space, homeSpace, g.Variant)) > 0
                 /\ (~(g.Variant = VariantBackgammon
                        /\ haveDiceRollOf(g, rolls, space, homeSpace) = 0)
                     \/ bearOffClear(g, space))
            THEN << <<space, homeSpace>> >>
            ELSE << >>
        lastSpace == IF g.Turn = 2 \/ g.Variant = VariantTabula THEN 25 ELSE 0
        first == IF space = SpaceHomePlayer
                 THEN (IF g.Variant = VariantTabula THEN 1 ELSE 25)
                 ELSE IF space = SpaceHomeOpponent THEN 1 ELSE space
        Open(to) == haveDiceRollOf(g, rolls, space, to) # 0
                      /\ OpponentCheckers(g.Board[to], g.Turn) <= 1
        sel == SelectSeq(IterateSpaces(first, lastSpace, g.Variant), Open)
    IN  IF skip THEN << >>
        ELSE bearOff \o [i \in 1 .. Len(sel) |-> <<space, sel[i]>>]

RECURSIVE boardMoves(_, _, _, _)
boardMoves(g, rolls, space, mayBearOff) ==
    IF space > BoardSpaces - 1 THEN << >>
    ELSE spaceMoves(g, rolls, space, mayBearOff)
            \o boardMoves(g, rolls, space + 1, mayBearOff)

\* The candidate moves LegalMoves collects before its simulation pass.
candidateMoves(g) ==
    LET rolls == DiceRolls(g)
        mayBearOff == MayBearOff(g, g.Turn, FALSE)
    IN  IF mustEnterBar(g) # -1 THEN enterMoves(g, rolls, mustEnterBar(g))
        ELSE boardMoves(g, rolls, 0, mayBearOff)

replaceSpace(g, i) ==
    IF g.Turn = 1 /\ i = SpaceHomeOpponent THEN SpaceHomePlayer
    ELSE IF g.Turn = 1 /\ i = SpaceBarOpponent THEN SpaceBarPlayer
    ELSE IF g.Turn = 2 /\ i = SpaceHomePlayer THEN SpaceHomeOpponent
    ELSE IF g.Turn = 2 /\ i = SpaceBarPlayer THEN SpaceBarOpponent
    ELSE i

\* The simulation pass of LegalMoves over the candidates moves: the length
\* it records for each candidate, the largest of them, the candidates it keeps.
moveCountsOf(g, moves) ==
    [i \in 1 .. Len(moves) |-> Len(totalMovesFirst(g.Moves, moves[i]))]

maxMovesOf(moveCounts) ==
    IF Len(moveCounts) = 0 THEN 0
    ELSE CHOOSE n \in {moveCounts[i] : i \in 1 .. Len(moveCounts)} :
            \A i \in 1 .. Len(moveCounts) : moveCounts[i] <= n

keepMaximum(moves, moveCounts, maxMoves) ==
    LET Keep(i) == moveCounts[i] >= maxMoves
        kept == SelectSeq([i \in 1 .. Len(moves) |-> i], Keep)
    IN  IF maxMoves > 1 THEN [k \in 1 .. Len(kept) |-> moves[kept[k]]] ELSE moves

simulateMoves(g, moves, moveCounts) ==
    keepMaximum(moves, moveCounts, maxMovesOf(moveCounts))

\* The last loop of LegalMoves: home and bar spaces named from the turn
\* player's side.
replaceSpaces(g, moves) ==
    [k \in 1 .. Len(moves) |->
        <<replaceSpace(g, moves[k][1]), replaceSpace(g, moves[k][2])>>]

legalAmong(g, moves) ==
    replaceSpaces(g, simulateMoves(g, moves, moveCountsOf(g, moves)))

LegalMoves(g, local) ==
    IF g.Winner # 0 \/ g.Roll1 = 0 \/ g.Roll2 = 0 THEN << >>
    ELSE legalAmong(g, candidateMoves(g))

\* The loop both TotalMoves and _totalMoves run over the sequences a
\* recursive call returns: a sequence shorter than the longest seen so far
\* is dropped, the others are appended.  [allMoves, maxMoves].
RECURSIVE keepLongest(_, _, _, _)
keepLongest(found, j, allMoves, maxMoves) ==
    IF j > Len(found) THEN [allMoves |-> allMoves, maxMoves |-> maxMoves]
    ELSE IF Len(found[j]) > maxMoves
    THEN keepLongest(found, j + 1, Append(allMoves, found[j]), Len(found[j]))
    ELSE IF Len(found[j]) < maxMoves
    THEN keepLongest(found, j + 1, allMoves, maxMoves)
    ELSE keepLongest(found, j + 1, Append(allMoves, found[j]), maxMoves)

\* _totalMoves returns allMoves: moves followed by move, then what the
\* loop over the legal moves of the copy kept.  The copy takes the move
\* (LegalMoves returns no move that addMove refuses).
RECURSIVE _totalMoves(_, _, _, _), totalMovesLoop(_, _, _, _, _, _)
totalMovesLoop(gc, newMoves, l, k, acc, local) ==
    IF k > Len(l) THEN acc.allMoves
    ELSE totalMovesLoop(gc, newMoves, l, k + 1,
                        keepLongest(_totalMoves(gc, newMoves, l[k], local), 1,
                                    acc.allMoves, acc.maxMoves),
                        local)

_totalMoves(g, moves, move, local) ==
    LET gc == addMove(g, move).g
        newMoves == Append(moves, move)
    IN  totalMovesLoop(gc, newMoves, LegalMoves(gc, local), 1,
                       [allMoves |-> <<newMoves>>, maxMoves |-> Len(newMoves)], local)

\* The first loop of TotalMoves, over the legal moves l of g.
RECURSIVE totalMovesCollect(_, _, _, _, _)
totalMovesCollect(g, l, k, acc, local) ==
    IF k > Len(l) THEN acc
    ELSE totalMovesCollect(g, l, k + 1,
                           keepLongest(_totalMoves(g, g.Moves, l[k], local), 1,
                                       acc.allMoves, acc.maxMoves),
                           local)

\* TotalMoves without its last loop, which keeps the longest sequences.
TotalMovesUnfiltered(g, l, local) ==
    totalMovesCollect(g, l, 1, [allMoves |-> << >>, maxMoves |-> 0], local).allMoves

\* TotalMoves, given l = g.LegalMoves(local).
TotalMovesFrom(g, l, local) ==
    LET acc == totalMovesCollect(g, l, 1, [allMoves |-> << >>, maxMoves |-> 0], local)
        IsLongest(moves) == Len(moves) = acc.maxMoves
    IN  SelectSeq(acc.allMoves, IsLongest)

TotalMoves(g, local) == TotalMovesFrom(g, LegalMoves(g, local), local)


(***************************************************************************)
(* ExpandMove and AddMoves.                                                *)
(***************************************************************************)
hitMovesOf(g, l) ==
    LET Hit(m) == OpponentCheckers(g.Board[m[2]], g.Turn) = 1
    IN  SelectSeq(l, Hit)

\* ExpandMove returns [ok, moves].  expandLoop is its double loop, at pass i
\* (0: the moves that hit, 1: all legal moves) and index k of that pass;
\* expandStep is the loop body for the move lm, expandNext what follows the
\* recursive call that returned r.  currentSpace is the method's parameter,
\* which the loop body overwrites and which keeps its value across iterations
\* and passes.
RECURSIVE ExpandMove(_, _, _, _, _), expandLoop(_, _, _, _, _, _, _, _)
RECURSIVE expandStep(_, _, _, _, _, _, _, _, _)
expandNext(g, l, move, moves, local, i, k, lm, r) ==
    IF r.ok THEN r
    ELSE expandLoop(g, l, move, lm[2], moves, local, i, k + 1)

expandStep(g, l, move, currentSpace, moves, local, i, k, lm) ==
    IF lm[1] # currentSpace
    THEN expandLoop(g, l, move, currentSpace, moves, local, i, k + 1)
    ELSE IF lm[2] = move[2]
    THEN [ok |-> TRUE, moves |-> Append(moves, <<lm[1], lm[2]>>)]
    ELSE expandNext(g, l, move, moves, local, i, k, lm,
                    ExpandMove(addMove(g, lm).g, move, lm[2],
                               Append(moves, <<lm[1], lm[2]>>), local))

expandLoop(g, l, move, currentSpace, moves, local, i, k) ==
    LET checkMoves == IF i = 0 THEN hitMovesOf(g, l) ELSE l
    IN  IF i > 1 THEN [ok |-> FALSE, moves |-> << >>]
        ELSE IF k > Len(checkMoves)
        THEN expandLoop(g, l, move, currentSpace, moves, local, i + 1, 1)
        ELSE expandStep(g, l, move, currentSpace, moves, local, i, k, checkMoves[k])

ExpandMove(g, move, currentSpace, moves, local) ==
    expandLoop(g, LegalMoves(g, local), move, currentSpace, moves, local, 0, 1)

\* The VALIDATEMOVES loop of AddMoves from the k-th requested move on:
\* [ok, addMoves, undoMoves].  gameCopy is not changed by this loop, so l is
\* gameCopy.LegalMoves(local) in every iteration, and the receiver g of
\* g.ExpandMove(move, move[0], nil, local) equals the copy, so the legal
\* moves ExpandMove starts from are l; expanded is what it returns.
RECURSIVE validateMoves(_, _, _, _, _, _, _, _)
validateExpanded(g, l, moves, local, k, addMoves, undoMoves, validateOffset, expanded) ==
    IF expanded.ok
    THEN validateMoves(g, l, moves, local, k + 1,
                       addMoves \o expanded.moves, undoMoves, validateOffset)
    ELSE [ok |-> FALSE, addMoves |-> << >>, undoMoves |-> << >>]

validateMoves(g, l, moves, local, k, addMoves, undoMoves, validateOffset) ==
    IF k > Len(moves) THEN [ok |-> TRUE, addMoves |-> addMoves, undoMoves |-> undoMoves]
    ELSE LET move == moves[k]
             i == Len(g.Moves) - validateOffset     \* 1-based index of gameMove
         IN  IF InSeq(l, <<move[1], move[2]>>)
             THEN validateMoves(g, l, moves, local, k + 1,
                                Append(addMoves, <<move[1], move[2]>>), undoMoves,
                                validateOffset)
             ELSE IF Len(g.Moves) > 0 /\ i < 1
             THEN [ok |-> FALSE, addMoves |-> << >>, undoMoves |-> << >>]
             ELSE IF Len(g.Moves) > 0 /\ move[1] = g.Moves[i][2] /\ move[2] = g.Moves[i][1]
             THEN validateMoves(g, l, moves, local, k + 1, addMoves,
                                Append(undoMoves, <<g.Moves[i][2], g.Moves[i][1]>>),
                                validateOffset + 1)
             ELSE validateExpanded(g, l, moves, local, k, addMoves, undoMoves,
                                   validateOffset,
                                   expandLoop(g, l, move, move[1], << >>, local, 0, 1))

\* The ADDMOVES loop: [ok, g, checkWin].  A move that is not among the legal
\* moves of the copy when its turn comes is passed over.
RECURSIVE applyAdds(_, _, _, _, _)
applyAdds(gc, addMoves, local, k, checkWin) ==
    IF k > Len(addMoves) THEN [ok |-> TRUE, g |-> gc, checkWin |-> checkWin]
    ELSE IF InSeq(LegalMoves(gc, local), addMoves[k])
    THEN IF ~addMove(gc, addMoves[k]).ok
         THEN [ok |-> FALSE, g |-> gc, checkWin |-> checkWin]
         ELSE applyAdds(addMove(gc, addMoves[k]).g, addMoves, local, k + 1,
                        checkWin \/ addMoves[k][2] = SpaceHomePlayer
                                 \/ addMoves[k][2] = SpaceHomeOpponent)
    ELSE applyAdds(gc, addMoves, local, k + 1, checkWin)

\* applyUndos that moves the checker back instead of restoring the snapshot.
RECURSIVE applyUndosReversing(_, _, _)
applyUndosReversing(gc, undoMoves, k) ==
    IF k > Len(undoMoves) THEN [ok |-> TRUE, g |-> gc]
    ELSE LET move == undoMoves[k]
             i == Len(gc.Moves)
             delta == IF gc.Turn = 2 THEN -1 ELSE 1
         IN  IF i > 0 /\ move[1] = gc.Moves[i][2] /\ move[2] = gc.Moves[i][1]
             THEN applyUndosReversing(
                     [gc EXCEPT !.Board = [[gc.Board EXCEPT ![move[1]] = @ - delta]
                                              EXCEPT ![move[2]] = @ + delta],
                                !.Entered1 = gc.enteredStates[i][1],
                                !.Entered2 = gc.enteredStates[i][2],
                                !.boardStates = SubSeq(@, 1, i - 1),
                                !.enteredStates = SubSeq(@, 1, i - 1),
                                !.Moves = SubSeq(@, 1, i - 1)],
                     undoMoves, k + 1)
             ELSE [ok |-> FALSE, g |-> gc]

\* applyUndos that leaves the snapshots of the moves it takes back on the
\* reversal stacks.
RECURSIVE applyUndosKeepingStacks(_, _, _)
applyUndosKeepingStacks(gc, undoMoves, k) ==
    IF k > Len(undoMoves) THEN [ok |-> TRUE, g |-> gc]
    ELSE LET move == undoMoves[k]
             i == Len(gc.Moves)
         IN  IF i > 0 /\ move[1] = gc.Moves[i][2] /\ move[2] = gc.Moves[i][1]
             THEN applyUndosKeepingStacks(
                     [gc EXCEPT !.Board = gc.boardStates[i],
                                !.Entered1 = gc.enteredStates[i][1],
                                !.Entered2 = gc.enteredStates[i][2],
                                !.Moves = SubSeq(@, 1, i - 1)],
                     undoMoves, k + 1)
             ELSE [ok |-> FALSE, g |-> gc]

\* The loop over undoMoves: [ok, g].
RECURSIVE applyUndos(_, _, _)
applyUndos(gc, undoMoves, k) ==
    IF k > Len(undoMoves) THEN [ok |-> TRUE, g |-> gc]
    ELSE LET move == undoMoves[k]
             i == Len(gc.Moves)
         IN  IF i > 0 /\ move[1] = gc.Moves[i][2] /\ move[2] = gc.Moves[i][1]
             THEN applyUndos([gc EXCEPT !.Board = gc.boardStates[i],
                                        !.Entered1 = gc.enteredStates[i][1],
                                        !.Entered2 = gc.enteredStates[i][2],
                                        !.boardStates = SubSeq(@, 1, i - 1),
                                        !.enteredStates = SubSeq(@, 1, i - 1),
                                        !.Moves = SubSeq(@, 1, i - 1)],
                             undoMoves, k + 1)
             ELSE [ok |-> FALSE, g |-> gc]

\* checkWinner that does not look for checkers left on the points.
checkWinnerNoScan(g, local) ==
    LET entered == IF ~local /\ g.Turn = 2 THEN g.Entered2 ELSE g.Entered1
        foundChecker == g.Variant # VariantBackgammon /\ ~entered
    IN  IF ~foundChecker THEN [g EXCEPT !.Winner = g.Turn] ELSE g

\* The win check at the end of AddMoves, on the game the copy was adopted into.
checkWinner(g, local) ==
    LET entered == IF ~local /\ g.Turn = 2 THEN g.Entered2 ELSE g.Entered1
        foundChecker == IF g.Variant # VariantBackgammon /\ ~entered THEN TRUE
                        ELSE \E space \in 1 .. 24 : PlayerCheckers(g.Board[space], g.Turn) # 0
    IN  IF ~foundChecker THEN [g EXCEPT !.Winner = g.Turn] ELSE g

\* The assignments that adopt the copy into the receiver.
adoptCopy(g, gameCopy) ==
    [g EXCEPT !.Board = gameCopy.Board,
              !.Moves = gameCopy.Moves,
              !.Entered1 = gameCopy.Entered1,
              !.Entered2 = gameCopy.Entered2,
              !.boardStates = gameCopy.boardStates,
              !.enteredStates = gameCopy.enteredStates]

\* AddMoves returns [ok, moves] and leaves the receiver as g.  Its phases, in
\* order: the loop over undoMoves on the copy a.g the adds left, then the
\* adoption of the copy and the win check (addMovesUndo); the ADDMOVES loop
\* on the copy of g (addMovesApply); the checks on what VALIDATEMOVES found,
\* v (addMovesValidated); the guard and VALIDATEMOVES, given
\* l = gameCopy.LegalMoves(local) (addMovesFrom).
addMovesCommit(g, v, a, u, local) ==
    IF ~u.ok THEN [ok |-> FALSE, moves |-> << >>, g |-> g]
    ELSE [ok |-> TRUE,
          moves |-> IF Len(v.addMoves) > 0 THEN v.addMoves ELSE v.undoMoves,
          g |-> IF a.checkWin THEN checkWinner(adoptCopy(g, u.g), local)
                ELSE adoptCopy(g, u.g)]

addMovesUndo(g, v, a, local) ==
    IF ~a.ok THEN [ok |-> FALSE, moves |-> << >>, g |-> g]
    ELSE addMovesCommit(g, v, a, applyUndos(a.g, v.undoMoves, 1), local)

\* addMovesValidated that applies the adds to the receiver before it rejects
\* a request mixing adds and undos.
addMovesValidatedInPlace(g, v, local) ==
    IF ~v.ok THEN [ok |-> FALSE, moves |-> << >>, g |-> g]
    ELSE IF Len(v.addMoves) # 0 /\ Len(v.undoMoves) # 0
    THEN [ok |-> FALSE, moves |-> << >>,
          g |-> adoptCopy(g, applyAdds(g, v.addMoves, local, 1, FALSE).g)]
    ELSE addMovesUndo(g, v, applyAdds(g, v.addMoves, local, 1, FALSE), local)

\* addMovesValidated without the rejection of a request mixing adds and undos.
addMovesValidatedMixed(g, v, local) ==
    IF ~v.ok THEN [ok |-> FALSE, moves |-> << >>, g |-> g]
    ELSE addMovesUndo(g, v, applyAdds(g, v.addMoves, local, 1, FALSE), local)

addMovesValidated(g, v, local) ==
    IF ~v.ok THEN [ok |-> FALSE, moves |-> << >>, g |-> g]
    ELSE IF Len(v.addMoves) # 0 /\ Len(v.undoMoves) # 0
    THEN [ok |-> FALSE, moves |-> << >>, g |-> g]
    ELSE addMovesUndo(g, v, applyAdds(g, v.addMoves, local, 1, FALSE), local)

\* addMovesFrom without the check that both players have a name.
addMovesFromUnseated(g, l, moves, local) ==
    IF g.Winner # 0
    THEN [ok |-> FALSE, moves |-> << >>, g |-> g]
    ELSE addMovesValidated(g, validateMoves(g, l, moves, local, 1, << >>, << >>, 0), local)

addMovesFrom(g, l, moves, local) ==
    IF g.Name1 = 0 \/ g.Name2 = 0 \/ g.Winner # 0
    THEN [ok |-> FALSE, moves |-> << >>, g |-> g]
    ELSE addMovesValidated(g, validateMoves(g, l, moves, local, 1, << >>, << >>, 0), local)

AddMoves(g, moves, local) == addMovesFrom(g, LegalMoves(g, local), moves, local)

\* Whether LegalMoves reaches a panic: SecondHalf called (through MayBearOff)
\* for a turn player that is neither 1 nor 2, here or in a game that
\* _totalMoves simulates.
RECURSIVE LegalMovesPanics(_)
LegalMovesPanics(g) ==
    /\ UnknownPlayer(g.Turn)
    /\ g.Variant = VariantTabula
    /\ g.Winner = 0 /\ g.Roll1 # 0 /\ g.Roll2 # 0
    /\ \/ mustEnterBar(g) = -1
       \/ \E i \in 1 .. Len(candidateMoves(g)) :
             LegalMovesPanics(addMove(g, candidateMoves(g)[i]).g)


(***************************************************************************)
(* Bounds of the model.                                                    *)
(***************************************************************************)
\* Client connections 1..NumClients; connection c carries the name
\* ClientName(c), so two connections can belong to the same user.
NumClients == 3
NumNames == 2
\* Calls of roll that return true in one behaviour.
MaxThrows == 1
\* Calls of Reset and of removeClient, and successful calls of addClient, in
\* one behaviour.
MaxResets == 1
MaxLeaves == 1
MaxJoins == 2

Clients == 1 .. NumClients
ClientName(c) == ((c - 1) % NumNames) + 1
Players == {1, 2}
Faces == 1 .. DieSides

(***************************************************************************)
(* State.                                                                  *)
(***************************************************************************)
VARIABLES
    game,          \* the Game embedded in serverGame
    client1,       \* serverGame.client1, 0 for nil
    client2,       \* serverGame.client2, 0 for nil
    playerNumber,  \* serverClient.playerNumber of every connection
    allowed1,      \* serverGame.allowed1, 0 for nil
    allowed2,      \* serverGame.allowed2, 0 for nil
    panicked,      \* a call reached log.Panicf
    throws,        \* calls of roll that returned true so far
    resets,        \* Reset calls so far
    leaves,        \* removeClient calls so far
    joins          \* successful addClient calls so far

vars == <<game, client1, client2, playerNumber, allowed1, allowed2, panicked,
          throws, resets, leaves, joins>>

session == <<client1, client2, playerNumber, allowed1, allowed2>>
counters == <<throws, resets, leaves, joins>>

(***************************************************************************)
(* Initial states: a game just constructed, with no client seated, or a    *)
(* match between connections 1 and 2: at the start of a turn, in a         *)
(* position that legal play reaches from the starting board, or in the     *)
(* initiative contest, player 1 having rolled a 5.                         *)
(***************************************************************************)
InProgress(variant, pairs, turn, entered) ==
    [NewGame(variant) EXCEPT !.Board = MkBoard(pairs),
                             !.Turn = turn,
                             !.Entered1 = entered,
                             !.Entered2 = entered,
                             !.Name1 = ClientName(1),
                             !.Name2 = ClientName(2)]

\* Backgammon: player 2, bearing off, has hit the last checker player 1 kept
\* in its home board and left a blot on 22.
PosBar1 == {<<SpaceBarPlayer, 1>>, <<6, 7>>, <<5, 7>>,
            <<SpaceHomeOpponent, -12>>, <<19, -2>>, <<22, -1>>}
\* Backgammon, the other way around: player 2 on the bar, a blot of player 1 on 3.
PosBar2 == {<<SpaceBarOpponent, -1>>, <<19, -7>>, <<20, -7>>,
            <<SpaceHomePlayer, 12>>, <<6, 2>>, <<3, 1>>}
\* Backgammon: player 1 bearing in behind an anchor of player 2 on point 1.
PosAnchor == {<<SpaceHomePlayer, 12>>, <<8, 1>>, <<3, 2>>,
              <<1, -2>>, <<19, -5>>, <<20, -4>>, <<21, -4>>}
\* Backgammon: both sides bearing off their last two checkers.
PosRace == {<<SpaceHomePlayer, 13>>, <<3, 1>>, <<1, 1>>,
            <<SpaceHomeOpponent, -13>>, <<22, -1>>, <<24, -1>>}
\* Acey-deucey: each side has one checker left to enter.
PosEntering == {<<SpaceHomePlayer, 1>>, <<24, 14>>,
                <<SpaceHomeOpponent, -1>>, <<1, -14>>}
\* Tabula: player 1 on the bar, hit by player 2, who holds point 22.
PosBarTabula == {<<SpaceBarPlayer, 1>>, <<20, 14>>,
                 <<SpaceHomeOpponent, -13>>, <<22, -2>>}
\* Acey-deucey and tabula: both sides entered, one checker each left to bear off.
PosLastAcey == {<<SpaceHomePlayer, 14>>, <<2, 1>>, <<SpaceHomeOpponent, -14>>, <<23, -1>>}
PosLastTabula == {<<SpaceHomePlayer, 14>>, <<23, 1>>, <<SpaceHomeOpponent, -14>>, <<22, -1>>}
\* Tabula: both sides past the halfway line, each with a checker short of the
\* last quarter.
PosHalfTabula == {<<SpaceHomePlayer, 13>>, <<17, 1>>, <<23, 1>>,
                  <<SpaceHomeOpponent, -13>>, <<15, -1>>, <<22, -1>>}

StartedGames ==
    {InProgress(VariantBackgammon, PosBar1, 1, TRUE),
     InProgress(VariantBackgammon, PosBar2, 2, TRUE),
     InProgress(VariantBackgammon, PosAnchor, 1, TRUE),
     InProgress(VariantBackgammon, PosRace, 1, TRUE),
     InProgress(VariantBackgammon, PosRace, 2, TRUE),
     InProgress(VariantAceyDeucey, PosEntering, 1, FALSE),
     InProgress(VariantAceyDeucey, PosEntering, 2, FALSE),
     InProgress(VariantAceyDeucey, PosLastAcey, 2, TRUE),
     InProgress(VariantTabula, PosBarTabula, 1, TRUE),
     InProgress(VariantTabula, PosLastTabula, 1, TRUE),
     InProgress(VariantTabula, PosLastTabula, 2, TRUE),
     InProgress(VariantTabula, PosHalfTabula, 1, TRUE)}

Contests ==
    {[NewGame(v) EXCEPT !.Name1 = ClientName(1), !.Name2 = ClientName(2), !.Roll1 = 5] :
        v \in Variants}

\* A match that started and that both clients have left since: the names
\* of the players are blank, the allowed names stay latched; one client may
\* join it again.
Abandoned ==
    {[NewGame(VariantBackgammon) EXCEPT !.Roll1 = 5]}

Init ==
    /\ \/ /\ game \in {NewGame(v) : v \in Variants}
          /\ client1 = 0 /\ client2 = 0
          /\ playerNumber = [c \in Clients |-> 0]
          /\ allowed1 = 0 /\ allowed2 = 0
          /\ joins = 0
          /\ leaves = 0
       \/ /\ game \in StartedGames \cup Contests
          /\ client1 = 1 /\ client2 = 2
          /\ playerNumber = [c \in Clients |-> IF c <= 2 THEN c ELSE 0]
          /\ allowed1 = ClientName(1) /\ allowed2 = ClientName(2)
          /\ joins = 2
          /\ leaves = 0
       \/ /\ game \in Abandoned
          /\ client1 = 0 /\ client2 = 0
          /\ playerNumber = [c \in Clients |-> 0]
          /\ allowed1 = ClientName(1) /\ allowed2 = ClientName(2)
          /\ joins = MaxJoins - 1
          /\ leaves = MaxLeaves
    /\ panicked = FALSE
    /\ throws = 0 /\ resets = 0

(***************************************************************************)
(* serverGame operations.                                                  *)
(***************************************************************************)
\* FlipSpace and FlipMoves as sendBoard calls them, with a slot and a
\* player: the ones of game.go.
FlipSpace2(space, player) ==
    IF player = 1 THEN space
    ELSE IF space < 1 \/ space > 24
    THEN (CASE space = SpaceHomePlayer -> SpaceHomeOpponent
            [] space = SpaceHomeOpponent -> SpaceHomePlayer
            [] space = SpaceBarPlayer -> SpaceBarOpponent
            [] space = SpaceBarOpponent -> SpaceBarPlayer
            [] OTHER -> -1)
    ELSE 24 - space + 1

FlipMoves2(moves, player) ==
    [i \in 1 .. Len(moves) |->
        <<FlipSpace2(moves[i][1], player), FlipSpace2(moves[i][2], player)>>]

\* Game.Copy: a new Game with a board, a move list and reversal stacks of
\* its own.
Copy(g) ==
    [ Variant |-> g.Variant,
      Board |-> [s \in Slots |-> g.Board[s]],
      Name1 |-> g.Name1,
      Name2 |-> g.Name2,
      Entered1 |-> g.Entered1,
      Entered2 |-> g.Entered2,
      Turn |-> g.Turn,
      Roll1 |-> g.Roll1,
      Roll2 |-> g.Roll2,
      Roll3 |-> g.Roll3,
      Moves |-> [i \in 1 .. Len(g.Moves) |-> g.Moves[i]],
      Winner |-> g.Winner,
      Points |-> g.Points,
      DoubleValue |-> g.DoubleValue,
      DoublePlayer |-> g.DoublePlayer,
      DoubleOffered |-> g.DoubleOffered,
      Reroll |-> g.Reroll,
      boardStates |-> [i \in 1 .. Len(g.boardStates) |-> g.boardStates[i]],
      enteredStates |-> [i \in 1 .. Len(g.enteredStates) |-> g.enteredStates[i]] ]

\* The GameState sendBoard builds for player 2 out of the game g and its
\* copy c.
flippedGame(g, c) ==
    [c EXCEPT !.Name1 = c.Name2, !.Name2 = c.Name1,
              !.Entered1 = c.Entered2, !.Entered2 = c.Entered1,
              !.Turn = CASE c.Turn = 1 -> 2 [] c.Turn = 2 -> 1 [] OTHER -> c.Turn,
              !.DoublePlayer = CASE c.DoublePlayer = 1 -> 2
                                 [] c.DoublePlayer = 2 -> 1
                                 [] OTHER -> c.DoublePlayer,
              !.Winner = CASE c.Winner = 1 -> 2 [] c.Winner = 2 -> 1 [] OTHER -> c.Winner,
              !.Roll1 = IF c.Roll1 = 0 \/ c.Roll2 = 0 THEN c.Roll2 ELSE c.Roll1,
              !.Roll2 = IF c.Roll1 = 0 \/ c.Roll2 = 0 THEN c.Roll1 ELSE c.Roll2,
              !.Board = [s \in Slots |->
                            CASE s \in 1 .. 24 -> g.Board[FlipSpace2(s, 2)] * (-1)
                              [] s = SpaceHomePlayer -> c.Board[SpaceHomeOpponent] * (-1)
                              [] s = SpaceHomeOpponent -> c.Board[SpaceHomePlayer] * (-1)
                              [] s = SpaceBarPlayer -> c.Board[SpaceBarOpponent] * (-1)
                              [] s = SpaceBarOpponent -> c.Board[SpaceBarPlayer] * (-1)],
              !.Moves = FlipMoves2(g.Moves, 2)]

\* sendBoard that flips the Game of the session itself.
sendBoardInPlace(g, number, legalMoves) ==
    IF number = 2
    THEN [Game |-> flippedGame(g, g),
          PlayerNumber |-> 1,
          Available |-> {<<FlipSpace2(legalMoves[i][1], number),
                           FlipSpace2(legalMoves[i][2], number)>> :
                            i \in 1 .. Len(legalMoves)},
          game |-> flippedGame(g, g)]
    ELSE [Game |-> g,
          PlayerNumber |-> number,
          Available |-> {legalMoves[i] : i \in 1 .. Len(legalMoves)},
          game |-> g]

\* The board event sendBoard sends to a JSON client whose playerNumber is
\* number, legalMoves being g.LegalMoves(false): the GameState (Game,
\* PlayerNumber and Available, which SortMoves puts in order: the model
\* keeps the moves as a set) and the Game of the session after the call.
sendBoard(g, number, legalMoves) ==
    IF number = 2
    THEN [Game |-> flippedGame(g, Copy(g)),
          PlayerNumber |-> 1,
          Available |-> {<<FlipSpace2(legalMoves[i][1], number),
                           FlipSpace2(legalMoves[i][2], number)>> :
                            i \in 1 .. Len(legalMoves)},
          game |-> g]
    ELSE [Game |-> g,
          PlayerNumber |-> number,
          Available |-> {legalMoves[i] : i \in 1 .. Len(legalMoves)},
          game |-> g]

\* sendBoard computes g.LegalMoves(false) for the board it sends.
sendBoardPanics(g) == LegalMovesPanics(g)

\* serverGame.opponent of a client, with the seats c1 and c2.
opponent(c1, c2, c) == IF c1 = c THEN c2 ELSE IF c2 = c THEN c1 ELSE 0

Event(type, to, player) == [type |-> type, to |-> to, player |-> player]

\* addClient that turns a client away only when the match is full.
addClientReplyAnyName(c1, c2, a1, a2, c) ==
    IF c1 # 0 /\ c2 # 0
    THEN [ok |-> FALSE, reason |-> "Match is full."]
    ELSE [ok |-> TRUE, reason |-> ""]

\* What addClient(c) returns, with the seats c1 and c2 and the allowed
\* names a1 and a2: [ok, reason].
addClientReply(c1, c2, a1, a2, c) ==
    IF a1 # 0 /\ ClientName(c) # a1 /\ ClientName(c) # a2
    THEN [ok |-> FALSE, reason |-> "Match has already started."]
    ELSE IF c1 # 0 /\ c2 # 0
    THEN [ok |-> FALSE, reason |-> "Match is full."]
    ELSE [ok |-> TRUE, reason |-> ""]

\* The values playerNumber can have when addClient(c) returns: the seat
\* given, 0 for none.
addClientNumbers(c1, c2, a1, a2, c) ==
    IF ~addClientReply(c1, c2, a1, a2, c).ok THEN {0}
    ELSE IF c1 # 0 THEN {2}
    ELSE IF c2 # 0 THEN {1}
    ELSE Players

\* The events the deferred function of addClient sends, number being the
\* seat the client got, 0 for none, and c1 and c2 the seats it left.
addClientEvents(c1, c2, c, number) ==
    IF number = 0 THEN << >>
    ELSE <<Event("Joined", c, number), Event("Board", c, 0)>>
         \o (IF opponent(c1, c2, c) # 0
             THEN <<Event("Joined", opponent(c1, c2, c), number),
                    Event("Board", opponent(c1, c2, c), 0)>>
             ELSE << >>)

playerCount ==
    (IF client1 # 0 THEN 1 ELSE 0) + (IF client2 # 0 THEN 1 ELSE 0)

terminated == client1 = 0 /\ client2 = 0

\* addClient that always takes the first seat.
addClientFirstSeat(c) ==
    /\ ~panicked
    /\ IF allowed1 # 0 /\ ClientName(c) # allowed1 /\ ClientName(c) # allowed2
       THEN UNCHANGED <<game, session, panicked, joins>>
       ELSE IF client1 # 0 /\ client2 # 0
       THEN UNCHANGED <<game, session, panicked, joins>>
       ELSE /\ joins < MaxJoins
            /\ joins' = joins + 1
            /\ client1' = c
            /\ game' = [game EXCEPT !.Name1 = ClientName(c)]
            /\ playerNumber' = [playerNumber EXCEPT ![c] = 1]
            /\ panicked' = sendBoardPanics(game')
            /\ UNCHANGED <<client2, allowed1, allowed2>>
    /\ UNCHANGED <<throws, resets, leaves>>

\* addClient: a random seat when both are free.
addClient(c) ==
    /\ ~panicked
    /\ IF allowed1 # 0 /\ ClientName(c) # allowed1 /\ ClientName(c) # allowed2
       THEN UNCHANGED <<game, session, panicked, joins>>
       ELSE IF client1 # 0 /\ client2 # 0
       THEN UNCHANGED <<game, session, panicked, joins>>
       ELSE \E seat \in Players :
              /\ client1 # 0 => seat = 2
              /\ client1 = 0 /\ client2 # 0 => seat = 1
              /\ joins < MaxJoins
              /\ joins' = joins + 1
              /\ client1' = IF seat = 1 THEN c ELSE client1
              /\ client2' = IF seat = 2 THEN c ELSE client2
              /\ game' = IF seat = 1 THEN [game EXCEPT !.Name1 = ClientName(c)]
                         ELSE [game EXCEPT !.Name2 = ClientName(c)]
              /\ playerNumber' = [playerNumber EXCEPT ![c] = seat]
              /\ panicked' = sendBoardPanics(game')
              /\ UNCHANGED <<allowed1, allowed2>>
    /\ UNCHANGED <<throws, resets, leaves>>

\* The events the deferred function of removeClient(c) sends to clients
\* that speak JSON, with the seats c1 and c2 as the call found them.
removeClientEvents(c1, c2, c) ==
    LET number == IF c1 = c THEN 1 ELSE IF c2 = c THEN 2 ELSE 0
        other == IF number = 1 THEN c2 ELSE c1
    IN  IF number = 0 THEN << >>
        ELSE <<Event("Left", c, ClientName(c))>>
             \o (IF other # 0 THEN <<Event("Left", other, ClientName(c))>> ELSE << >>)

\* removeClient that leaves the name of the player in the Game.
removeClientKeepingName(c) ==
    /\ ~panicked
    /\ leaves < MaxLeaves
    /\ leaves' = leaves + 1
    /\ IF client1 = c
       THEN /\ client1' = 0
            /\ playerNumber' = [playerNumber EXCEPT ![c] = 0]
            /\ UNCHANGED <<game, client2>>
       ELSE IF client2 = c
       THEN /\ client2' = 0
            /\ playerNumber' = [playerNumber EXCEPT ![c] = 0]
            /\ UNCHANGED <<game, client1>>
       ELSE UNCHANGED <<game, client1, client2, playerNumber>>
    /\ UNCHANGED <<allowed1, allowed2, panicked, throws, resets, joins>>

removeClient(c) ==
    /\ ~panicked
    /\ leaves < MaxLeaves
    /\ leaves' = leaves + 1
    /\ IF client1 = c
       THEN /\ client1' = 0
            /\ game' = [game EXCEPT !.Name1 = 0]
            /\ playerNumber' = [playerNumber EXCEPT ![c] = 0]
            /\ UNCHANGED client2
       ELSE IF client2 = c
       THEN /\ client2' = 0
            /\ game' = [game EXCEPT !.Name2 = 0]
            /\ playerNumber' = [playerNumber EXCEPT ![c] = 0]
            /\ UNCHANGED client1
       ELSE UNCHANGED <<game, client1, client2, playerNumber>>
    /\ UNCHANGED <<allowed1, allowed2, panicked, throws, resets, joins>>

\* The step of the roll command that follows roll() in the initiative
\* contest: once both dice show, the higher roller gets the turn.
decideInitiative(g) ==
    IF g.Turn = 0 /\ g.Roll1 # 0 /\ g.Roll2 # 0 /\ g.Roll1 # g.Roll2
    THEN [g EXCEPT !.Turn = IF g.Roll1 > g.Roll2 THEN 1 ELSE 2]
    ELSE g

\* rollDice that lets a player roll its initiative die again.
rollDiceContestAgain(g, c1, c2, player, d1, d2) ==
    IF c1 = 0 \/ c2 = 0 \/ g.Winner # 0
    THEN [ok |-> FALSE, g |-> g]
    ELSE IF g.Turn = 0
    THEN [ok |-> TRUE,
          g |-> IF player = 1 THEN [g EXCEPT !.Roll1 = d1]
                ELSE [g EXCEPT !.Roll2 = d1]]
    ELSE IF player # g.Turn \/ g.Roll1 # 0 \/ g.Roll2 # 0
    THEN [ok |-> FALSE, g |-> g]
    ELSE [ok |-> TRUE, g |-> [g EXCEPT !.Roll1 = d1, !.Roll2 = d2]]

\* rollDice that lets either player roll in a turn.
rollDiceAnyPlayer(g, c1, c2, player, d1, d2) ==
    IF c1 = 0 \/ c2 = 0 \/ g.Winner # 0
    THEN [ok |-> FALSE, g |-> g]
    ELSE IF g.Turn = 0
    THEN IF (player = 1 /\ g.Roll1 # 0) \/ (player # 1 /\ g.Roll2 # 0)
         THEN [ok |-> FALSE, g |-> g]
         ELSE [ok |-> TRUE,
               g |-> IF player = 1 THEN [g EXCEPT !.Roll1 = d1]
                     ELSE [g EXCEPT !.Roll2 = d1]]
    ELSE IF g.Roll1 # 0 \/ g.Roll2 # 0
    THEN [ok |-> FALSE, g |-> g]
    ELSE [ok |-> TRUE, g |-> [g EXCEPT !.Roll1 = d1, !.Roll2 = d2]]

\* serverGame.roll of a game g seated with c1 and c2, with the die faces
\* randInt hands it: [ok, g].
rollDice(g, c1, c2, player, d1, d2) ==
    IF c1 = 0 \/ c2 = 0 \/ g.Winner # 0
    THEN [ok |-> FALSE, g |-> g]
    ELSE IF g.Turn = 0
    THEN IF (player = 1 /\ g.Roll1 # 0) \/ (player # 1 /\ g.Roll2 # 0)
         THEN [ok |-> FALSE, g |-> g]
         ELSE [ok |-> TRUE,
               g |-> IF player = 1 THEN [g EXCEPT !.Roll1 = d1]
                     ELSE [g EXCEPT !.Roll2 = d1]]
    ELSE IF player # g.Turn \/ g.Roll1 # 0 \/ g.Roll2 # 0
    THEN [ok |-> FALSE, g |-> g]
    ELSE [ok |-> TRUE, g |-> [g EXCEPT !.Roll1 = d1, !.Roll2 = d2]]

\* The roll command: roll(player), which latches the allowed names in the
\* initiative contest, then the initiative decision.
roll(player, d1, d2) ==
    /\ ~panicked
    /\ IF ~rollDice(game, client1, client2, player, d1, d2).ok
       THEN UNCHANGED <<game, allowed1, allowed2, throws>>
       ELSE /\ throws < MaxThrows
            /\ throws' = throws + 1
            /\ game' = decideInitiative(rollDice(game, client1, client2, player, d1, d2).g)
            /\ allowed1' = IF game.Turn = 0 /\ allowed1 = 0
                           THEN ClientName(client1) ELSE allowed1
            /\ allowed2' = IF game.Turn = 0 /\ allowed1 = 0
                           THEN ClientName(client2) ELSE allowed2
    /\ UNCHANGED <<client1, client2, playerNumber, panicked, resets, leaves, joins>>

(***************************************************************************)
(* Game operations called on the session's Game.                           *)
(***************************************************************************)
Reverse(m) == <<m[2], m[1]>>
SeqToSet(s) == {s[i] : i \in 1 .. Len(s)}

\* The move lists handed to AddMoves in game g with legal moves l.
Requests(g, l) ==
    LET legal == SeqToSet(l)
        pending == {Reverse(g.Moves[i]) : i \in 1 .. Len(g.Moves)}
        dice == {g.Roll1, g.Roll2, g.Roll3} \ {0}
        sums == {a + b : a \in dice, b \in dice}
        sources == {m[1] : m \in legal}
        \* one die away from a checker of the turn player, in any direction
        single == {p \in Slots \X Slots :
                      /\ PlayerCheckers(g.Board[p[1]], g.Turn) > 0
                      /\ SpaceDiff(p[1], p[2], g.Variant) \in dice}
        \* two dice away from the source of a legal move
        far == {p \in sources \X (1 .. 24) :
                   SpaceDiff(p[1], p[2], g.Variant) \in sums}
        undoAll == IF Len(g.Moves) < 2 THEN {}
                   ELSE {[i \in 1 .. k |-> Reverse(g.Moves[Len(g.Moves) + 1 - i])] :
                            k \in 2 .. Len(g.Moves)}
    IN  {<< >>}
        \cup {<<m>> : m \in legal \cup pending \cup single \cup far}
        \cup {p \in legal \X legal : p[1][1] = p[2][1]}
        \cup {<<a, b>> : a \in legal, b \in pending}
        \cup {<<b, a>> : a \in legal, b \in pending}
        \cup {<<a, b>> : a \in pending, b \in pending}
        \cup undoAll

addMoves ==
    /\ ~panicked
    /\ IF game.Name1 # 0 /\ game.Name2 # 0 /\ game.Winner = 0 /\ LegalMovesPanics(game)
       THEN /\ panicked' = TRUE
            /\ UNCHANGED game
       ELSE LET l == LegalMoves(game, FALSE)
            IN  \E moves \in Requests(game, l) :
                  /\ game' = addMovesFrom(game, l, moves, FALSE).g
                  /\ UNCHANGED panicked
    /\ UNCHANGED <<session, counters>>

\* The session ends a turn that has rolled (AWAIT_ROLL -> ROLLED -> COMMIT),
\* or tries to on a finished game.
nextTurn(reroll) ==
    /\ ~panicked
    /\ (game.Roll1 # 0 /\ game.Roll2 # 0) \/ game.Winner # 0
    /\ game' = NextTurn(game, reroll)
    /\ UNCHANGED <<session, panicked, counters>>

reset ==
    /\ ~panicked
    /\ resets < MaxResets
    /\ resets' = resets + 1
    /\ game' = Reset(game)
    /\ UNCHANGED <<session, panicked, throws, leaves, joins>>

Next ==
    \/ \E c \in Clients : addClient(c)
    \/ \E c \in Clients : removeClient(c)
    \/ \E p \in Players, d1 \in Faces, d2 \in Faces : roll(p, d1, d2)
    \/ addMoves
    \/ \E reroll \in BOOLEAN : nextTurn(reroll)
    \/ reset

Spec == Init /\ [][Next]_vars

(***************************************************************************)
(* Properties.                                                             *)
(***************************************************************************)
\* Checkers of one side on the starting board.
CheckersPerSide == 15

\* The moves LegalMoves returns in the current state, the move lists tried on
\* it, and what AddMoves answers to one of them.
Legal == LegalMoves(game, FALSE)
Reqs == Requests(game, Legal)
Result(r) == addMovesFrom(game, Legal, r, FALSE)

\* No call has panicked and LegalMoves does not panic in the current state.
Sound == ~panicked /\ ~LegalMovesPanics(game)
InTurn == game.Turn \in Players
Seated == game.Name1 # 0 /\ game.Name2 # 0
Rolled == game.Roll1 # 0 /\ game.Roll2 # 0

\* Checkers of player on slots s .. 27 of board.
RECURSIVE CheckersFrom(_, _, _)
CheckersFrom(board, player, s) ==
    IF s > BoardSpaces - 1 THEN 0
    ELSE PlayerCheckers(board[s], player) + CheckersFrom(board, player, s + 1)

\* C1: each side has exactly 15 checkers over slots 0..27 in every state
\* reached by roll, accepted AddMoves calls and NextTurn.
C1_CheckerConservation ==
    /\ CheckersFrom(game.Board, 1, 0) = CheckersPerSide
    /\ CheckersFrom(game.Board, 2, 0) = CheckersPerSide

\* The board before and after the k-th pending move.
BoardBefore(k) == game.boardStates[k]
BoardAfter(k) == IF k < Len(game.Moves) THEN game.boardStates[k + 1] ELSE game.Board
HitBar == IF game.Turn = 2 THEN SpaceBarPlayer ELSE SpaceBarOpponent
Own(n) == IF game.Turn = 2 THEN -n ELSE n

\* C2: in a turn of player 1 or 2, no legal move and no applied move lands on
\* two or more opposing checkers, and addMove refuses such a move; a move
\* applied onto exactly one opposing checker leaves exactly one checker of
\* the mover there and adds one checker to the hit side's bar; a slot goes
\* from one side to the other only as the destination of such a hit.
C2_HitAndBlock ==
    (Sound /\ InTurn) =>
        /\ \A i \in 1 .. Len(Legal) :
              /\ OpponentCheckers(game.Board[Legal[i][2]], game.Turn) <= 1
              /\ OpponentCheckers(game.Board[Legal[i][2]], game.Turn) = 1 =>
                    LET after == addMove(game, Legal[i]).g.Board
                    IN  /\ after[Legal[i][2]] = Own(1)
                        /\ after[HitBar] = game.Board[HitBar] - Own(1)
        /\ \A from \in Slots, to \in Slots :
              OpponentCheckers(game.Board[to], game.Turn) >= 2 =>
                 /\ ~addMove(game, <<from, to>>).ok
                 /\ addMove(game, <<from, to>>).g = game
        /\ \A k \in 1 .. Len(game.Moves) :
              LET to == game.Moves[k][2]
              IN  /\ OpponentCheckers(BoardBefore(k)[to], game.Turn) <= 1
                  /\ OpponentCheckers(BoardBefore(k)[to], game.Turn) = 1 =>
                        /\ BoardAfter(k)[to] = Own(1)
                        /\ BoardAfter(k)[HitBar] = BoardBefore(k)[HitBar] - Own(1)
                  /\ \A s \in Slots :
                        BoardBefore(k)[s] * BoardAfter(k)[s] < 0 =>
                           /\ s = to
                           /\ OpponentCheckers(BoardBefore(k)[s], game.Turn) = 1

\* A pending move hit a blot, and some point is blocked for the turn player.
C2_Witness ==
    /\ Sound /\ InTurn
    /\ \E k \in 1 .. Len(game.Moves) :
          OpponentCheckers(BoardBefore(k)[game.Moves[k][2]], game.Turn) = 1
    /\ \E to \in Slots : OpponentCheckers(game.Board[to], game.Turn) >= 2

\* C3: a call of AddMoves that returns false leaves the Game as it was.
C3_CopyAndCommit ==
    Sound => \A r \in Reqs : LET res == Result(r) IN ~res.ok => res.g = game

\* With a move pending, AddMoves rejects a request that pairs a legal move
\* with another move.
C3_Witness ==
    /\ Sound /\ InTurn /\ Seated /\ game.Winner = 0
    /\ Len(game.Moves) > 0
    /\ \E r \in Reqs : Len(r) = 2 /\ InSeq(Legal, r[1]) /\ ~Result(r).ok

\* The largest number of moves that can still be played one after the other
\* in g: longestAmong given the legal moves l of g, longestAfter over the
\* moves l[k], l[k+1], ...
RECURSIVE longestPlay(_), longestAfter(_, _, _)
longestAfter(g, l, k) ==
    IF k > Len(l) THEN 0
    ELSE maxInt(longestPlay(addMove(g, l[k]).g), longestAfter(g, l, k + 1))

longestAmong(g, l) == IF Len(l) = 0 THEN 0 ELSE 1 + longestAfter(g, l, 1)

longestPlay(g) == longestAmong(g, LegalMoves(g, FALSE))

\* C4: with dice rolled, every move LegalMoves returns starts a sequence of
\* moves as long as the longest sequence playable from the state.
C4_MustPlayMaximum ==
    (Sound /\ InTurn /\ Rolled) =>
        \A i \in 1 .. Len(Legal) :
           1 + longestPlay(addMove(game, Legal[i]).g) = longestAmong(game, Legal)

\* The fields the round trip of C5 compares.
Undoable(g) ==
    <<g.Board, g.Entered1, g.Entered2, g.Moves, g.boardStates, g.enteredStates>>

\* AddMoves([m]) succeeds on the current state, and AddMoves([(to, from)]) on
\* what it leaves succeeds and restores the state.
RoundTrip(m) ==
    LET first == Result(<<m>>)
        second == AddMoves(first.g, <<Reverse(m)>>, FALSE)
    IN  /\ first.ok
        /\ second.ok
        /\ Undoable(second.g) = Undoable(game)

\* C5 as stated: in every state, every move LegalMoves returns can be applied
\* and then undone, which restores the Game.
C5_RoundTrip ==
    Sound => \A i \in 1 .. Len(Legal) : RoundTrip(Legal[i])

\* C5 as amended: with both seats taken, every move LegalMoves returns is
\* applied by AddMoves, and unless it finishes the game it can then be
\* undone, which restores the Game.
C5_RoundTripUnfinished ==
    (Sound /\ Seated) =>
        \A i \in 1 .. Len(Legal) :
           /\ Result(<<Legal[i]>>).ok
           /\ Result(<<Legal[i]>>).g.Winner = 0 => RoundTrip(Legal[i])

\* A move is pending and a legal move hits a blot: undoing it has to put the
\* blot back.
C5_Witness ==
    /\ Sound /\ Seated /\ InTurn
    /\ \E i \in 1 .. Len(Legal) :
          /\ OpponentCheckers(game.Board[Legal[i][2]], game.Turn) = 1
          /\ Result(<<Legal[i]>>).g.Winner = 0

\* The fields a finished game keeps.
Frozen(g) == <<g.Board, g.Moves, g.Roll1, g.Roll2, g.Roll3, g.Turn, g.Winner>>

\* In a finished game LegalMoves returns no move and AddMoves, NextTurn and
\* roll change none of the fields of Frozen.
ServerFrozen ==
    /\ Legal = << >>
    /\ \A r \in Reqs : ~Result(r).ok /\ Frozen(Result(r).g) = Frozen(game)
    /\ \A reroll \in BOOLEAN : Frozen(NextTurn(game, reroll)) = Frozen(game)
    /\ \A p \in Players, d1 \in Faces, d2 \in Faces :
          LET r == rollDice(game, client1, client2, p, d1, d2)
          IN  ~r.ok /\ Frozen(r.g) = Frozen(game)

\* C6 as stated: once Winner is 1 or 2, AddMoves, AddLocalMove, NextTurn and
\* roll leave Board, Moves, dice, Turn and Winner unchanged, and LegalMoves
\* returns no move.
C6_FinishedGameFrozen ==
    (~panicked /\ game.Winner # 0) =>
        /\ ServerFrozen
        /\ \A from \in Slots, to \in Slots :
              Frozen(addMove(game, <<from, to>>).g) = Frozen(game)

\* C6 as amended: once Winner is 1 or 2, AddMoves, NextTurn and roll leave
\* Board, Moves, dice, Turn and Winner unchanged, and LegalMoves returns no
\* move.
C6_FinishedGameFrozenServer ==
    (~panicked /\ game.Winner # 0) => ServerFrozen

\* A finished game with both players seated and the winning move pending, so
\* that an undo can be asked for.
C6_Witness ==
    /\ ~panicked /\ game.Winner \in Players /\ Seated /\ Rolled
    /\ \E r \in Reqs : r # << >>

\* C7: when AddMoves returns true, an add call has appended exactly the
\* returned moves to Moves, in order, and an undo call has shortened Moves by
\* the number of returned moves.
C7_ReturnedMovesApplied ==
    Sound =>
        \A r \in Reqs :
           LET res == Result(r)
           IN  res.ok =>
                  IF Len(res.g.Moves) >= Len(game.Moves)
                  THEN res.g.Moves = game.Moves \o res.moves
                  ELSE Len(res.g.Moves) = Len(game.Moves) - Len(res.moves)

\* hops[k], hops[k+1], ... are each legal in the game the hops before leave.
RECURSIVE eachLegal(_, _, _)
eachLegal(g, hops, k) ==
    IF k > Len(hops) THEN TRUE
    ELSE /\ InSeq(LegalMoves(g, FALSE), hops[k])
         /\ eachLegal(addMove(g, hops[k]).g, hops, k + 1)

\* hops moves one checker from from to to by moves legal one after the other.
Chain(g, hops, from, to) ==
    /\ Len(hops) > 0
    /\ hops[1][1] = from
    /\ hops[Len(hops)][2] = to
    /\ \A k \in 2 .. Len(hops) : hops[k][1] = hops[k - 1][2]
    /\ eachLegal(g, hops, 1)

\* C8: whenever ExpandMove(move, move[0], nil, local) succeeds, the moves it
\* returns are a chain of legal hops of one checker from move[0] to move[1].
C8_ExpandMoveChain ==
    Sound =>
        \A from \in {Legal[i][1] : i \in 1 .. Len(Legal)}, to \in Slots :
           LET e == ExpandMove(game, <<from, to>>, from, << >>, FALSE)
           IN  e.ok => Chain(game, e.moves, from, to)

\* C9: boardStates, enteredStates and Moves have the same length.
C9_StacksMatchMoves ==
    /\ Len(game.boardStates) = Len(game.Moves)
    /\ Len(game.enteredStates) = Len(game.Moves)

\* Two moves are pending, in a variant where the Entered flags change.
C9_Witness ==
    /\ Len(game.Moves) >= 2
    /\ game.Variant # VariantBackgammon
    /\ Len(game.enteredStates) = Len(game.Moves)

\* The bar of the turn player and the points a checker enters on from it.
OwnBar == IF game.Turn = 2 THEN SpaceBarOpponent ELSE SpaceBarPlayer
EntryPoints ==
    IF game.Variant = VariantTabula \/ game.Turn = 2 THEN 1 .. 6 ELSE 19 .. 24

\* C10: while the turn player has a checker on the bar, every move LegalMoves
\* returns goes from that bar to an entry point, and the first move an
\* AddMoves call applies starts from the bar.
C10_BarEntryMandatory ==
    (Sound /\ InTurn /\ PlayerCheckers(game.Board[OwnBar], game.Turn) > 0) =>
        /\ \A i \in 1 .. Len(Legal) :
              Legal[i][1] = OwnBar /\ Legal[i][2] \in EntryPoints
        /\ \A r \in Reqs :
              LET res == Result(r)
              IN  (res.ok /\ Len(res.g.Moves) > Len(game.Moves)) =>
                     res.g.Moves[Len(game.Moves) + 1][1] = OwnBar

\* A checker of the turn player is on the bar and can enter, and AddMoves
\* rejects a move of another of its checkers.
C10_Witness ==
    /\ Sound /\ InTurn /\ Seated
    /\ PlayerCheckers(game.Board[OwnBar], game.Turn) > 0
    /\ Len(Legal) > 0
    /\ \E r \in Reqs : Len(r) = 1 /\ r[1][1] # OwnBar /\ r[1][1] \in 1 .. 24
                       /\ PlayerCheckers(game.Board[r[1][1]], game.Turn) > 0
                       /\ ~Result(r).ok


\* The home slots, the home quadrant of a player in backgammon and
\* acey-deucey, the Entered flag of a player.
HomeSlots == {SpaceHomePlayer, SpaceHomeOpponent}
HomeQuadrant(player) == IF player = 2 THEN 19 .. 24 ELSE 1 .. 6
EnteredOf(g, player) == IF player = 2 THEN g.Entered2 ELSE g.Entered1

\* On board, player has no checker on a bar, has entered, and has no checker
\* on a point outside its home quadrant.
BearOffReady(board, entered, player) ==
    /\ PlayerCheckers(board[SpaceBarPlayer], player) = 0
    /\ PlayerCheckers(board[SpaceBarOpponent], player) = 0
    /\ entered
    /\ \A s \in (1 .. 24) \ HomeQuadrant(player) : PlayerCheckers(board[s], player) = 0

\* C11: in backgammon and acey-deucey, in a turn of player 1 or 2, a move into
\* a home slot is returned by LegalMoves, or was applied by AddMoves, only on
\* a board where the mover has no checker on a bar, is Entered and has no
\* checker on a point outside its home quadrant.
C11_BearOffPrecondition ==
    (Sound /\ InTurn /\ game.Variant # VariantTabula) =>
        /\ \A i \in 1 .. Len(Legal) :
              Legal[i][2] \in HomeSlots =>
                 BearOffReady(game.Board, EnteredOf(game, game.Turn), game.Turn)
        /\ \A k \in 1 .. Len(game.Moves) :
              game.Moves[k][2] \in HomeSlots =>
                 BearOffReady(BoardBefore(k), game.enteredStates[k][game.Turn], game.Turn)

\* The mover has a checker in its home quadrant with an unused pip equal to
\* its distance from home, and another checker outside the quadrant.
C11_Witness ==
    /\ Sound /\ InTurn /\ Seated /\ game.Variant # VariantTabula
    /\ ~BearOffReady(game.Board, EnteredOf(game, game.Turn), game.Turn)
    /\ \E s \in HomeQuadrant(game.Turn) :
          /\ PlayerCheckers(game.Board[s], game.Turn) > 0
          /\ InSeq(DiceRolls(game), IF game.Turn = 2 THEN 25 - s ELSE s)

\* The home slot of the turn player, the distance of point s from it, and
\* the points farther from it than s.
OwnHome == IF game.Turn = 2 THEN SpaceHomeOpponent ELSE SpaceHomePlayer
HomeDistance(s) ==
    IF game.Turn = 2 \/ game.Variant = VariantTabula THEN 25 - s ELSE s
Farther(s) ==
    IF game.Turn = 2 \/ game.Variant = VariantTabula THEN 1 .. (s - 1) ELSE (s + 1) .. 24

\* C12: in a turn of player 1 or 2, every move into a home slot LegalMoves
\* returns has an unused pip equal to the distance of its checker from home,
\* or, in backgammon only, an unused pip greater than that distance while the
\* mover has no checker on a point farther from home.
C12_BearOffOvershoot ==
    (Sound /\ InTurn) =>
        \A i \in 1 .. Len(Legal) :
           Legal[i][2] \in HomeSlots =>
              LET s == Legal[i][1]
                  rolls == DiceRolls(game)
              IN  \/ InSeq(rolls, HomeDistance(s))
                  \/ /\ game.Variant = VariantBackgammon
                     /\ \E k \in 1 .. Len(rolls) : rolls[k] > HomeDistance(s)
                     /\ \A t \in Farther(s) : PlayerCheckers(game.Board[t], game.Turn) = 0

\* Backgammon: one checker may be borne off with a larger pip, another, closer
\* to home, may not although a larger pip is unused.
C12_Witness ==
    /\ Sound /\ InTurn /\ Seated /\ game.Variant = VariantBackgammon
    /\ \E i \in 1 .. Len(Legal) :
          /\ Legal[i][2] \in HomeSlots
          /\ ~InSeq(DiceRolls(game), HomeDistance(Legal[i][1]))
    /\ \E t \in 1 .. 24 :
          /\ PlayerCheckers(game.Board[t], game.Turn) > 0
          /\ \E k \in 1 .. Len(DiceRolls(game)) : DiceRolls(game)[k] > HomeDistance(t)
          /\ ~InSeq(Legal, <<t, OwnHome>>)

\* player has no checker on a bar and is Entered; player has no checker on
\* the points of set.
OffBarsAndEntered(player) ==
    /\ PlayerCheckers(game.Board[SpaceBarPlayer], player) = 0
    /\ PlayerCheckers(game.Board[SpaceBarOpponent], player) = 0
    /\ EnteredOf(game, player)
NoneOn(player, set) == \A s \in set : PlayerCheckers(game.Board[s], player) = 0

AddedMoves(res) ==
    IF res.ok /\ Len(res.g.Moves) > Len(game.Moves)
    THEN SubSeq(res.g.Moves, Len(game.Moves) + 1, Len(res.g.Moves))
    ELSE << >>
ToHome(moves) == \E k \in 1 .. Len(moves) : moves[k][2] \in HomeSlots

\* In g the turn player has no checker on the points 1..24 and, outside
\* backgammon, is Entered.
Finished(g) ==
    /\ \A s \in 1 .. 24 : PlayerCheckers(g.Board[s], g.Turn) = 0
    /\ (g.Variant = VariantBackgammon \/ EnteredOf(g, g.Turn))

\* C14: in a turn of player 1 or 2, a call of AddMoves that applied a move
\* into a home slot leaves Winner equal to the turn player if the turn player
\* has no checker left on the points 1..24 and (backgammon or Entered), and
\* leaves it 0 otherwise; every other call (no move into a home slot, an
\* undo, a rejected call) leaves Winner as it was.
C14_WinDetection ==
    (Sound /\ InTurn) =>
        \A r \in Reqs :
           LET res == Result(r)
           IN  IF ToHome(AddedMoves(res))
               THEN res.g.Winner = (IF Finished(res.g) THEN game.Turn ELSE 0)
               ELSE res.g.Winner = game.Winner

\* An earlier bear-off of this turn left the game open, and a request now
\* bears off the last checker.
C14_Witness ==
    /\ Sound /\ InTurn /\ Seated /\ game.Winner = 0
    /\ ToHome(game.Moves)
    /\ \E r \in Reqs : ToHome(AddedMoves(Result(r))) /\ Result(r).g.Winner = game.Turn

\* The home tray of a player, and the Entered flags before and after the
\* k-th pending move.
HomeOf(player) == IF player = 2 THEN SpaceHomeOpponent ELSE SpaceHomePlayer
EnteredBefore(k) == game.enteredStates[k]
EnteredAfter(k) ==
    IF k < Len(game.Moves) THEN game.enteredStates[k + 1]
    ELSE <<game.Entered1, game.Entered2>>

\* C15: in backgammon both Entered flags are true in every state.  In
\* acey-deucey and tabula the flags are false after NewGame and Reset; a
\* flag goes from false to true exactly on the applied move that leaves that
\* player's own tray empty, a move of that player out of its tray; a flag
\* that is true stays true over roll, NextTurn and every AddMoves call but
\* an undo, which restores the flags recorded before the undone move; and
\* MayBearOff(player) is false while the player's flag is false.
C15_EntryGate ==
    Sound =>
        /\ \A v \in Variants :
              /\ NewGame(v).Entered1 = (v = VariantBackgammon)
              /\ NewGame(v).Entered2 = (v = VariantBackgammon)
        /\ game.Variant = VariantBackgammon => (game.Entered1 /\ game.Entered2)
        /\ game.Variant # VariantBackgammon =>
              /\ ~Reset(game).Entered1 /\ ~Reset(game).Entered2
              /\ \A player \in Players :
                    /\ ~EnteredOf(game, player) => ~MayBearOff(game, player, FALSE)
                    /\ \A k \in 1 .. Len(game.Moves) :
                          /\ EnteredBefore(k)[player] => EnteredAfter(k)[player]
                          /\ ~EnteredBefore(k)[player] =>
                                (EnteredAfter(k)[player] <=>
                                    BoardAfter(k)[HomeOf(player)] = 0)
                          /\ (~EnteredBefore(k)[player] /\ EnteredAfter(k)[player]) =>
                                /\ player = game.Turn
                                /\ game.Moves[k][1] = HomeOf(player)
                                /\ BoardBefore(k)[HomeOf(player)] # 0
                    /\ \A reroll \in BOOLEAN :
                          EnteredOf(NextTurn(game, reroll), player) = EnteredOf(game, player)
                    /\ \A p \in Players, d1 \in Faces, d2 \in Faces :
                          EnteredOf(rollDice(game, client1, client2, p, d1, d2).g, player)
                             = EnteredOf(game, player)
                    /\ \A r \in Reqs :
                          LET res == Result(r)
                          IN  /\ (~res.ok \/ r = << >>) =>
                                    EnteredOf(res.g, player) = EnteredOf(game, player)
                              /\ (res.ok /\ Len(res.g.Moves) < Len(game.Moves)) =>
                                    EnteredOf(res.g, player)
                                       = EnteredBefore(Len(res.g.Moves) + 1)[player]
                              /\ (EnteredOf(game, player) /\ ~EnteredOf(res.g, player)) =>
                                    (res.ok /\ Len(res.g.Moves) < Len(game.Moves))

\* Acey-deucey or tabula: the last pending move took the turn player's last
\* checker out of its tray and set its flag, the other player's flag is still
\* false, and the move can be undone.
C15_Witness ==
    /\ Sound /\ InTurn /\ Seated /\ game.Variant # VariantBackgammon
    /\ Len(game.Moves) > 0
    /\ ~EnteredBefore(Len(game.Moves))[game.Turn]
    /\ EnteredOf(game, game.Turn)
    /\ ~EnteredOf(game, opponentPlayer(game))
    /\ \E r \in Reqs : Result(r).ok /\ ~EnteredOf(Result(r).g, game.Turn)

\* The pips of the roll: doubles twice, in tabula the three dice.
RollPips ==
    IF game.Variant = VariantTabula THEN <<game.Roll1, game.Roll2, game.Roll3>>
    ELSE IF game.Roll1 = game.Roll2
    THEN <<game.Roll1, game.Roll2, game.Roll1, game.Roll2>>
    ELSE <<game.Roll1, game.Roll2>>
Occurrences(s, x) == Cardinality({i \in 1 .. Len(s) : s[i] = x})

\* C16: Moves holds at most 2 moves for a non-double roll, 4 for doubles and
\* 3 in tabula; DiceRolls returns pips of the roll, one fewer for each
\* pending move; and when it returns none, LegalMoves returns no move.
C16_MovesWithinPips ==
    /\ Len(game.Moves) <= (IF game.Variant = VariantTabula THEN 3
                           ELSE IF game.Roll1 = game.Roll2 THEN 4 ELSE 2)
    /\ Len(DiceRolls(game)) = Len(RollPips) - Len(game.Moves)
    /\ \A face \in 0 .. DieSides :
          Occurrences(DiceRolls(game), face) <= Occurrences(RollPips, face)
    /\ (Sound /\ DiceRolls(game) = << >>) => Legal = << >>

\* Doubles with four moves pending: every pip is used.
C16_Witness ==
    /\ Sound /\ InTurn /\ Seated
    /\ game.Roll1 # 0 /\ game.Roll1 = game.Roll2
    /\ Len(game.Moves) = 4
    /\ DiceRolls(game) = << >>

\* The moves AddMoves takes for adds in the current state: the legal moves
\* and, among the moves that take a checker with a legal move two dice away,
\* those that ExpandMove expands (Expandable).  The moves it takes for undos:
\* the reverse of the last pending move, and the reverse of an earlier one
\* that is neither legal nor expandable.
TwoDiceAway ==
    LET dice == {game.Roll1, game.Roll2, game.Roll3} \ {0}
    IN  {p \in {Legal[i][1] : i \in 1 .. Len(Legal)} \X (1 .. 24) :
            SpaceDiff(p[1], p[2], game.Variant) \in {a + b : a \in dice, b \in dice}}
Expandable ==
    {p \in TwoDiceAway :
        /\ ~InSeq(Legal, p)
        /\ ExpandMove(game, p, p[1], << >>, FALSE).ok}
UndosGiven(expandable) ==
    {b \in {Reverse(game.Moves[i]) : i \in 1 .. Len(game.Moves)} :
        /\ ~InSeq(Legal, b)
        /\ (b = Reverse(game.Moves[Len(game.Moves)]) \/ b \notin expandable)}
AddsGiven(expandable, undos) == (SeqToSet(Legal) \cup expandable) \ undos

\* A request of an add and an undo is rejected and leaves the Game as it was.
MixedRejected(adds, undos) ==
    \A a \in adds, b \in undos :
       \A r \in {<<a, b>>, <<b, a>>} :
          LET res == Result(r) IN ~res.ok /\ res.g = game

\* C17: a request that holds an add (a legal or an expandable move) and an
\* undo (the reverse of a pending move), in either order, is rejected and
\* leaves the Game as it was.
C17_AddsOrUndos ==
    (Sound /\ Len(game.Moves) > 0) =>
        LET expandable == Expandable
            undos == UndosGiven(expandable)
        IN  MixedRejected(AddsGiven(expandable, undos), undos)

\* Both seats taken, game open: the last pending move is legal once more, an
\* expandable move exists, and the request of the legal move followed by the
\* undo is rejected.
C17_Witness ==
    /\ Sound /\ Seated /\ game.Winner = 0
    /\ Len(game.Moves) > 0
    /\ InSeq(Legal, game.Moves[Len(game.Moves)])
    /\ ~InSeq(Legal, Reverse(game.Moves[Len(game.Moves)]))
    /\ Expandable # {}
    /\ ~Result(<<game.Moves[Len(game.Moves)], Reverse(game.Moves[Len(game.Moves)])>>).ok

\* roll(player) may succeed in the current state of a turn.
MayRoll(player) ==
    /\ player = game.Turn
    /\ game.Roll1 = 0 /\ game.Roll2 = 0
    /\ client1 # 0 /\ client2 # 0
    /\ game.Winner = 0

\* In a turn of player 1 or 2, what roll(player) answers and leaves.
RollAnswers ==
    InTurn =>
        \A player \in Players, d1 \in Faces, d2 \in Faces :
           LET r == rollDice(game, client1, client2, player, d1, d2)
           IN  IF MayRoll(player)
               THEN /\ r.ok
                    /\ r.g.Roll1 \in 1 .. 6 /\ r.g.Roll2 \in 1 .. 6
                    /\ r.g = [game EXCEPT !.Roll1 = r.g.Roll1, !.Roll2 = r.g.Roll2]
               ELSE ~r.ok /\ r.g = game

\* A step that sets dice in a turn of player 1 or 2.
RollStep ==
    /\ InTurn
    /\ game'.Roll1 # game.Roll1 \/ game'.Roll2 # game.Roll2
    /\ game'.Roll1 # 0 \/ game'.Roll2 # 0

\* C18: in a turn of player 1 or 2, roll(p) succeeds only for p = Turn with
\* Roll1 = Roll2 = 0, both seats taken and Winner = 0; it then sets Roll1 and
\* Roll2 to values in 1..6 and changes nothing else, in the Game and in the
\* session; in every other case it returns false and changes nothing.
C18_RollInTurn ==
    /\ []RollAnswers
    /\ [][RollStep =>
            /\ MayRoll(game.Turn)
            /\ game'.Roll1 \in 1 .. 6 /\ game'.Roll2 \in 1 .. 6
            /\ game' = [game EXCEPT !.Roll1 = game'.Roll1, !.Roll2 = game'.Roll2]
            /\ UNCHANGED <<session, panicked>>]_vars

\* The turn player has just rolled in a game in progress.
C18_Witness ==
    /\ InTurn /\ Rolled /\ throws = 1
    /\ game.Board # NewBoard(game.Variant)
    /\ game.Moves = << >>

\* The initiative die of a player in g, and whether the player has a seat.
OwnDie(g, player) == IF player = 1 THEN g.Roll1 ELSE g.Roll2
HasSeat(player) == IF player = 1 THEN client1 # 0 ELSE client2 # 0

\* What roll(player) answers and leaves in the initiative contest: a player
\* that has not rolled sets its own die and nothing else, and once both dice
\* show and differ the higher roller has the turn; a player that has rolled
\* gets false and nothing changes.
ContestRoll(player) ==
    \A d1 \in Faces, d2 \in Faces :
       LET r == rollDice(game, client1, client2, player, d1, d2)
           after == decideInitiative(r.g)
       IN  IF OwnDie(game, player) = 0
           THEN /\ r.ok
                /\ OwnDie(r.g, player) \in 1 .. 6
                /\ r.g = (IF player = 1 THEN [game EXCEPT !.Roll1 = r.g.Roll1]
                          ELSE [game EXCEPT !.Roll2 = r.g.Roll2])
                /\ (after.Roll1 # 0 /\ after.Roll2 # 0 /\ after.Roll1 # after.Roll2) =>
                      after.Turn = (IF after.Roll1 > after.Roll2 THEN 1 ELSE 2)
                /\ (after.Roll1 = 0 \/ after.Roll2 = 0) => after.Turn = 0
                /\ after = [r.g EXCEPT !.Turn = after.Turn]
           ELSE ~r.ok /\ r.g = game

DiceOf(g) == <<g.Roll1, g.Roll2, g.Roll3>>
SlotsInUse(g) ==
    IF g.Variant = VariantTabula THEN {g.Roll1, g.Roll2, g.Roll3}
    ELSE {g.Roll1, g.Roll2}

\* C20: in every state with Turn in {1, 2} the roll slots in use (Roll1 and
\* Roll2, and Roll3 in tabula) are all 0 or all in 1..6; a step that changes
\* the roll slots is a roll when it leaves a slot non-zero, and NextTurn or
\* Reset when it leaves them all 0.
C20_RollSlotsAllOrNothing ==
    /\ [](InTurn => (SlotsInUse(game) = {0} \/ SlotsInUse(game) \subseteq 1 .. 6))
    /\ [][DiceOf(game') # DiceOf(game) =>
            IF DiceOf(game') = <<0, 0, 0>>
            THEN \/ \E reroll \in BOOLEAN : game' = NextTurn(game, reroll)
                 \/ game' = Reset(game)
            ELSE \E player \in Players, d1 \in Faces, d2 \in Faces :
                    LET r == rollDice(game, client1, client2, player, d1, d2)
                    IN  r.ok /\ game' = decideInitiative(r.g)]_vars

(***************************************************************************)
(* NextTurn on an unfinished game.                                         *)
(***************************************************************************)
Cube(g) == <<g.DoubleValue, g.DoublePlayer, g.DoubleOffered>>
Kept(g) == <<g.Board, g.Entered1, g.Entered2, g.Winner, Cube(g)>>
Cleared(g) ==
    /\ g.Roll1 = 0 /\ g.Roll2 = 0 /\ g.Roll3 = 0
    /\ g.Moves = << >> /\ g.boardStates = << >> /\ g.enteredStates = << >>

\* C21: on a game without a winner, in the turn of player 1 or 2,
\* NextTurn(false) hands the turn to the other player and NextTurn(true)
\* leaves it; both clear the three roll slots, the pending moves and both
\* reversal stacks, and keep the board, the Entered flags, Winner and the
\* doubling cube.
C21_NextTurn ==
    game.Winner = 0 /\ game.Turn \in Players =>
        /\ NextTurn(game, FALSE).Turn = 3 - game.Turn
        /\ NextTurn(game, TRUE).Turn = game.Turn
        /\ \A reroll \in BOOLEAN :
              /\ Cleared(NextTurn(game, reroll))
              /\ Kept(NextTurn(game, reroll)) = Kept(game)

\* A turn with dice rolled and a move pending, which NextTurn ends.
C21_Witness ==
    /\ game.Winner = 0 /\ game.Turn \in Players
    /\ game.Roll1 # 0 /\ game.Roll2 # 0
    /\ Len(game.Moves) > 0 /\ Len(game.boardStates) > 0
    /\ ~panicked

(***************************************************************************)
(* Reset.                                                                  *)
(***************************************************************************)
\* The game with the doubling cube, the acey-deucey reroll flag and the
\* match length as the doubling and match commands can have left them.
CubeValues == {1, 2}
MatchPoints == {1, 3}
WithCube(g) ==
    {[g EXCEPT !.DoubleValue = dv, !.DoublePlayer = dp, !.DoubleOffered = offered,
               !.Reroll = rr, !.Points = pts] :
        dv \in CubeValues, dp \in 0 .. 2, offered \in BOOLEAN, rr \in BOOLEAN,
        pts \in MatchPoints}

\* C22: Reset, from any state, sets Board to the variant's starting board,
\* Turn and the three roll slots to 0, Moves and both reversal stacks to
\* empty, DoubleValue to 1, DoublePlayer to 0, DoubleOffered and Reroll to
\* false and, outside backgammon, both Entered flags to false; the player
\* names, Variant and Points stay as they were.
C22_Reset ==
    \A g \in WithCube(game) :
        LET r == Reset(g)
        IN  /\ r.Board = NewBoard(g.Variant)
            /\ r.Turn = 0
            /\ Cleared(r)
            /\ r.DoubleValue = 1 /\ r.DoublePlayer = 0
            /\ ~r.DoubleOffered /\ ~r.Reroll
            /\ g.Variant # VariantBackgammon => ~r.Entered1 /\ ~r.Entered2
            /\ r.Name1 = g.Name1 /\ r.Name2 = g.Name2
            /\ r.Variant = g.Variant
            /\ r.Points = g.Points

\* Reset has put a match that was under way, with both players entered and
\* away from the starting board, back to the start.
C22_Witness ==
    /\ resets > 0
    /\ game.Variant # VariantBackgammon
    /\ game.Board = NewBoard(game.Variant)
    /\ game.Turn = 0 /\ Cleared(game)
    /\ ~game.Entered1 /\ ~game.Entered2
    /\ game.Name1 # 0 /\ game.Name2 # 0
    /\ allowed1 # 0

(***************************************************************************)
(* Seats.                                                                  *)
(***************************************************************************)
SeatOf(c1, c2, player) == IF player = 1 THEN c1 ELSE c2
NameOf(g, player) == IF player = 1 THEN g.Name1 ELSE g.Name2
Occupied == {player \in Players : SeatOf(client1, client2, player) # 0}

\* A step in which addClient succeeded.
JoinStep == joins' = joins + 1

\* The connection c has just been placed in the seat of player.
SeatedAs(c, player) ==
    /\ SeatOf(client1, client2, player) = 0
    /\ SeatOf(client1', client2', player) = c
    /\ SeatOf(client1', client2', 3 - player) = SeatOf(client1, client2, 3 - player)
    /\ playerNumber' = [playerNumber EXCEPT ![c] = player]
    /\ NameOf(game', player) = ClientName(c)
    /\ NameOf(game', 3 - player) = NameOf(game, 3 - player)

\* With both seats empty addClient can give a client either seat.
EitherSeat ==
    terminated /\ ~panicked /\ joins < MaxJoins /\ allowed1 = 0 =>
        \A c \in Clients, player \in Players :
            ENABLED (addClient(c) /\ SeatedAs(c, player))

\* C23: addClient never replaces an occupied seat; it succeeds only when a
\* seat is free, and puts the client in the empty seat, either one when both
\* are empty; after it the client's playerNumber is the seat number and the
\* Game's player name of the seat is the client's name. playerCount is the
\* number of occupied seats and terminated() holds exactly when it is 0.
C23_SeatAssignment ==
    /\ [](/\ playerCount = Cardinality(Occupied)
          /\ playerCount \in 0 .. 2
          /\ terminated <=> playerCount = 0
          /\ EitherSeat)
    /\ [][JoinStep =>
            /\ playerCount < 2
            /\ \E c \in Clients, player \in Players : SeatedAs(c, player)
            /\ \A player \in Occupied :
                  SeatOf(client1', client2', player) = SeatOf(client1, client2, player)]_vars

\* A client has taken the seat the other player left free.
C23_Witness ==
    /\ joins = 2 /\ leaves = 0
    /\ playerCount = 2
    /\ client1 # client2
    /\ \A player \in Players :
          /\ playerNumber[SeatOf(client1, client2, player)] = player
          /\ NameOf(game, player) = ClientName(SeatOf(client1, client2, player))
    /\ allowed1 = 0

(***************************************************************************)
(* Joins that are turned away.                                             *)
(***************************************************************************)
Latched == allowed1 # 0
Stranger(c) == ClientName(c) # allowed1 /\ ClientName(c) # allowed2
Reply(c) == addClientReply(client1, client2, allowed1, allowed2, c)

\* addClient(c) leaves the seats, the playerNumbers, the allowed names and
\* the Game, names included, as they are.
ChangesNothing(c) ==
    ~ENABLED (addClient(c) /\ <<game, session>>' # <<game, session>>)

TurnedAway(c, reason) ==
    /\ Reply(c) = [ok |-> FALSE, reason |-> reason]
    /\ ChangesNothing(c)
    /\ \A number \in addClientNumbers(client1, client2, allowed1, allowed2, c) :
          addClientEvents(client1, client2, c, number) = << >>

\* C24: once the first roll of the match has latched the allowed names,
\* addClient of a client with neither name fails with "Match has already
\* started.", also when a seat is free; otherwise addClient with both seats
\* occupied fails with "Match is full."; a failed addClient changes neither
\* the seats, the player names, the client's playerNumber nor the Game, and
\* sends no Joined and no Board event.
C24_JoinRejection ==
    \A c \in Clients :
        IF Latched /\ Stranger(c) THEN TurnedAway(c, "Match has already started.")
        ELSE IF playerCount = 2 THEN TurnedAway(c, "Match is full.")
        ELSE Reply(c).ok

\* The match has started, a player has left and a client of another name
\* asks for the free seat.
C24_Witness ==
    /\ Latched /\ throws > 0
    /\ playerCount = 1
    /\ \E c \in Clients : Stranger(c) /\ ~Reply(c).ok
    /\ ~panicked

(***************************************************************************)
(* Leaving.                                                                *)
(***************************************************************************)
\* The seat removeClient(c) finds c in, 0 for none.
SeatFound(c) == IF client1 = c THEN 1 ELSE IF client2 = c THEN 2 ELSE 0

\* The step has taken c out of the seat of player and left the rest.
Vacated(c, player) ==
    /\ SeatOf(client1', client2', player) = 0
    /\ SeatOf(client1', client2', 3 - player) = SeatOf(client1, client2, 3 - player)
    /\ game' = IF player = 1 THEN [game EXCEPT !.Name1 = 0]
               ELSE [game EXCEPT !.Name2 = 0]
    /\ playerNumber' = [playerNumber EXCEPT ![c] = 0]
    /\ UNCHANGED <<allowed1, allowed2, panicked>>

Leaves(c) ==
    LET player == SeatFound(c)
        other == SeatOf(client1, client2, 3 - player)
    IN  IF player # 0
        THEN /\ ~ENABLED (removeClient(c) /\ ~Vacated(c, player))
             /\ removeClientEvents(client1, client2, c) =
                    <<Event("Left", c, ClientName(c))>>
                    \o (IF other # 0 THEN <<Event("Left", other, ClientName(c))>>
                        ELSE << >>)
        ELSE /\ ~ENABLED (removeClient(c) /\ <<game, session, panicked>>' # <<game, session, panicked>>)
             /\ removeClientEvents(client1, client2, c) = << >>

\* C25: removeClient(c) of a seated client empties the seat of c, blanks the
\* name of that player in the Game, sets the playerNumber of c to 0 and
\* sends one Left event to c and one to the opponent that remains, if any;
\* the other seat, the Board, the dice, Turn and Moves stay as they were.
\* For a client in neither seat it changes nothing and sends nothing.
C25_RemoveClient == \A c \in Clients : Leaves(c)

\* A player has left a match in which dice were rolled; the opponent stays.
C25_Witness ==
    /\ leaves > 0
    /\ client1 = 0 /\ client2 # 0
    /\ game.Name1 = 0 /\ game.Name2 # 0
    /\ \A c \in Clients : c # client2 => playerNumber[c] = 0
    /\ game.Roll1 # 0 /\ game.Roll2 # 0 /\ game.Turn \in Players

(***************************************************************************)
(* The board as a player sees it.                                          *)
(***************************************************************************)
Exchanged(n) == IF n = 0 THEN 0 ELSE 3 - n
Flipped(move) == <<FlipSpace2(move[1], 2), FlipSpace2(move[2], 2)>>
\* The game with the doubling cube in each place the doubling command can
\* have left it.
CubeAt == {[game EXCEPT !.DoublePlayer = dp] : dp \in 0 .. 2}

ViewOfPlayer2(g, legal) ==
    LET sent == sendBoard(g, 2, legal)
        view == sent.Game
    IN  /\ \A s \in Slots : view.Board[s] = -g.Board[FlipSpace2(s, 2)]
        /\ view.Turn = Exchanged(g.Turn)
        /\ view.Winner = Exchanged(g.Winner)
        /\ view.DoublePlayer = Exchanged(g.DoublePlayer)
        /\ Len(view.Moves) = Len(g.Moves)
        /\ \A i \in 1 .. Len(g.Moves) : view.Moves[i] = Flipped(g.Moves[i])
        /\ sent.Available = {Flipped(m) : m \in SeqToSet(legal)}
        /\ sent.game = g

ViewOfPlayer1(g, legal) ==
    LET sent == sendBoard(g, 1, legal)
    IN  /\ sent.Game = g
        /\ sent.Available = SeqToSet(legal)
        /\ sent.game = g

\* C26: the snapshot sendBoard builds for player 2 has
\* Board[s] = -Game.Board[FlipSpace(s, 2)] on every slot, Turn, Winner and
\* DoublePlayer with 1 and 2 exchanged and 0 kept, and every pending move
\* and every available legal move taken through FlipSpace slot by slot; the
\* snapshot for player 1 is the Game; sendBoard does not modify the Game of
\* the session.
C26_PlayerTwoView ==
    Sound =>
        LET legal == Legal
        IN  \A g \in CubeAt : ViewOfPlayer2(g, legal) /\ ViewOfPlayer1(g, legal)

\* Player 2 is sent the board of a turn with a move pending and moves left.
C26_Witness ==
    /\ Sound /\ InTurn
    /\ client2 # 0 /\ playerNumber[client2] = 2
    /\ Len(game.Moves) > 0
    /\ Len(Legal) > 0
    /\ \E s \in 1 .. 24 : game.Board[s] # -game.Board[25 - s]

(***************************************************************************)
(* FlipSpace.                                                              *)
(***************************************************************************)
Points == 1 .. 24

\* C27: on the slots 0..27, in the variant of every game, FlipSpace for player 2 is its
\* own inverse and FlipSpace for player 1 is the identity; for player 2 it
\* exchanges the two bars and the two homes and takes point p to 25 - p, in
\* tabula to p itself.
C27_FlipSpaceInvolution ==
    LET v == game.Variant
    IN  /\ \A s \in Slots :
              /\ FlipSpace(FlipSpace(s, 2, v), 2, v) = s
              /\ FlipSpace(s, 1, v) = s
              /\ FlipSpace2(FlipSpace2(s, 2), 2) = s
              /\ FlipSpace2(s, 1) = s
        /\ FlipSpace(SpaceBarPlayer, 2, v) = SpaceBarOpponent
        /\ FlipSpace(SpaceBarOpponent, 2, v) = SpaceBarPlayer
        /\ FlipSpace(SpaceHomePlayer, 2, v) = SpaceHomeOpponent
        /\ FlipSpace(SpaceHomeOpponent, 2, v) = SpaceHomePlayer
        /\ \A p \in Points :
              FlipSpace(p, 2, v) = IF v = VariantTabula THEN p ELSE 25 - p

\* In tabula player 2 has a move between two points pending, which FlipSpace
\* leaves where it is and game.go's FlipSpace mirrors.
C27_Witness ==
    /\ game.Variant = VariantTabula /\ game.Turn = 2
    /\ Len(game.Moves) > 0
    /\ game.Moves[1][1] \in Points /\ game.Moves[1][2] \in Points
    /\ FlipSpace(game.Moves[1][1], 2, game.Variant) = game.Moves[1][1]
    /\ FlipSpace2(game.Moves[1][1], 2) = 25 - game.Moves[1][1]

(***************************************************************************)
(* Panics.                                                                 *)
(***************************************************************************)
\* C28: whatever the clients send, in whatever order, no call of roll,
\* AddMoves, LegalMoves, ExpandMove, NextTurn, addClient, removeClient or
\* sendBoard reaches a panic, also at Turn = 0 with both initiative dice
\* rolled, in every variant.
C28_NoPanic == ~panicked /\ ~LegalMovesPanics(game)

(***************************************************************************)
(* SpaceDiff.                                                              *)
(***************************************************************************)
Bars == {SpaceBarPlayer, SpaceBarOpponent}
Homes == {SpaceHomePlayer, SpaceHomeOpponent}
\* Slot numbers a caller can hand to SpaceDiff, one beyond the board each way.
SlotNumbers == -1 .. BoardSpaces

\* The pairings the variant does not allow.
Disallowed(from, to, variant) ==
    \/ from \notin Slots \/ to \notin Slots
    \/ to \in Bars
    \/ from \in Bars /\ to \in Homes
    \/ from \in Homes /\ to \in Homes
    \/ from \in Homes /\ to \in Points /\ variant = VariantBackgammon

\* C29: SpaceDiff returns 0 for every pairing that is not allowed, in every
\* variant: to a bar, bar to bar, bar to home, home to home, home to point
\* in backgammon, and any slot outside 0..27; for every other pairing of
\* two different slots it returns a value in 1..24.
C29_SpaceDiffDisallowed ==
    \A from \in SlotNumbers, to \in SlotNumbers :
        IF Disallowed(from, to, game.Variant)
        THEN SpaceDiff(from, to, game.Variant) = 0
        ELSE from # to => SpaceDiff(from, to, game.Variant) \in 1 .. 24

(***************************************************************************)
(* Direction of play.                                                      *)
(***************************************************************************)
\* The player whose checkers stand on a slot, 0 for an empty slot.
Owner(s) == IF game.Board[s] > 0 THEN 1 ELSE IF game.Board[s] < 0 THEN 2 ELSE 0

Forward(move, mover) ==
    IF game.Variant = VariantTabula \/ mover = 2
    THEN move[2] > move[1]
    ELSE move[2] < move[1]

\* C30: every move between two points that LegalMoves returns goes the way
\* of the mover, the player whose checker it moves: down for player 1 and up
\* for player 2 in backgammon and acey-deucey, up for both in tabula; no
\* move returned has from = to.
C30_DirectionOfPlay ==
    Sound =>
        LET legal == SeqToSet(Legal)
        IN  \A move \in legal :
                /\ move[1] # move[2]
                /\ move[1] \in Points /\ move[2] \in Points =>
                      /\ Owner(move[1]) \in Players
                      /\ InTurn => Owner(move[1]) = game.Turn
                      /\ Forward(move, Owner(move[1]))

\* In the turn of player 1 or 2 the moves between points that LegalMoves
\* returns are moves of the turn player's checkers, in its direction.
ForwardInTurn ==
    Sound /\ InTurn =>
        \A move \in SeqToSet(Legal) :
            /\ move[1] # move[2]
            /\ move[1] \in Points /\ move[2] \in Points =>
                  Owner(move[1]) = game.Turn /\ Forward(move, game.Turn)

(***************************************************************************)
(* Undo, last in first out.                                                *)
(***************************************************************************)
\* The reverses of the last k pending moves, the last one first.
LastReversed(g, k) == [i \in 1 .. k |-> Reverse(g.Moves[Len(g.Moves) + 1 - i])]

\* The game g as it was before its last k pending moves.
BeforeLast(g, k) ==
    LET n == Len(g.Moves) - k
    IN  [g EXCEPT !.Board = g.boardStates[n + 1],
                  !.Entered1 = g.enteredStates[n + 1][1],
                  !.Entered2 = g.enteredStates[n + 1][2],
                  !.Moves = SubSeq(g.Moves, 1, n),
                  !.boardStates = SubSeq(g.boardStates, 1, n),
                  !.enteredStates = SubSeq(g.enteredStates, 1, n)]

\* AddMoves took pending moves back.
Undone(res) == res.ok /\ Len(res.g.Moves) < Len(game.Moves)

\* An accepted undo is the reverses of the last k pending moves, taken from
\* the end, and leaves the game as it was before them; the reverse of a
\* pending move that differs from the last one is refused.
UndoFromTheEnd ==
    Sound =>
        /\ \A r \in Reqs :
              Undone(Result(r)) =>
                  /\ Len(r) <= Len(game.Moves)
                  /\ r = LastReversed(game, Len(r))
                  /\ Result(r).g = BeforeLast(game, Len(r))
        /\ \A i \in 1 .. Len(game.Moves) :
              game.Moves[i] # game.Moves[Len(game.Moves)] =>
                  ~Result(<<Reverse(game.Moves[i])>>).ok

\* A step that ends a turn in which moves were made: NextTurn.
TurnEnds ==
    /\ game.Moves # << >> /\ game'.Moves = << >>
    /\ game'.Board = game.Board
    /\ game'.Turn \in Players /\ game'.Winner = 0

\* The requests that would take back moves of the turn that has ended.
Reversals(g) ==
    {<<Reverse(g.Moves[i])>> : i \in 1 .. Len(g.Moves)}
    \cup {LastReversed(g, k) : k \in 1 .. Len(g.Moves)}

\* Once the next roll is made, AddMoves refuses every one of them, also
\* when the roll shows the pips of the turn that has ended again.
NoRevert(before, after) ==
    LET rolled == rollDice(after, client1, client2, after.Turn,
                           before.Roll1, before.Roll2).g
        l == LegalMoves(rolled, FALSE)
    IN  \A r \in Reversals(before) : ~addMovesFrom(rolled, l, r, FALSE).ok

\* C31: undo is last in, first out and confined to the turn: AddMoves
\* accepts an undo only if its k entries are, in order, the reverses of the
\* last k pending moves from the end of Moves, and then restores the state
\* before those moves; it refuses to reverse a pending move that is not the
\* last one; after NextTurn no AddMoves call takes back a move of the
\* earlier turn.
C31_UndoLastInFirstOut ==
    /\ []UndoFromTheEnd
    /\ [][TurnEnds => NoRevert(game, game')]_vars

\* Two different moves are pending and the request that reverses both, the
\* last one first, is accepted.
C31_Witness ==
    /\ Sound /\ InTurn
    /\ Len(game.Moves) >= 2
    /\ game.Moves[1] # game.Moves[2]
    /\ Undone(Result(LastReversed(game, 2)))
    /\ ~Result(<<Reverse(game.Moves[1])>>).ok

(***************************************************************************)
(* TotalMoves.                                                             *)
(***************************************************************************)
\* The complete plays from g: the pending moves followed by legal moves,
\* each legal where its predecessors lead, until no move is legal.
RECURSIVE Plays(_)
Plays(g) ==
    LET l == LegalMoves(g, FALSE)
    IN  IF Len(l) = 0 THEN {g.Moves}
        ELSE UNION {Plays(addMove(g, l[i]).g) : i \in 1 .. Len(l)}

Longest(plays) == {p \in plays : \A q \in plays : Len(q) <= Len(p)}

\* C32: TotalMoves returns exactly the complete move sequences of maximum
\* length: each starts with the pending Moves and goes on with moves that
\* are legal where the moves before them lead, all have the same length,
\* and no longer sequence of legal moves exists.
C32_TotalMoves ==
    Sound =>
        LET total == SeqToSet(TotalMovesFrom(game, Legal, FALSE))
            n == Len(game.Moves)
        IN  /\ \A moves \in total :
                  Len(moves) > n /\ SubSeq(moves, 1, n) = game.Moves
            /\ IF Len(Legal) = 0 THEN total = {}
               ELSE total = Longest(Plays(game))

\* Some plays from here stop earlier than others, and TotalMoves returns the
\* ones that go on.
C32_Witness ==
    /\ Sound /\ InTurn
    /\ Longest(Plays(game)) # Plays(game)
    /\ TotalMovesFrom(game, Legal, FALSE) # << >>

(***************************************************************************)
(* The initiative contest.                                                 *)
(***************************************************************************)
\* C33: while Turn = 0, also once both players have rolled their initiative
\* die, LegalMoves returns no move and AddMoves of any moves returns false
\* and leaves Board and Moves as they are.
C33_NoMoveInContest ==
    Sound /\ game.Turn = 0 =>
        /\ Legal = << >>
        /\ \A r \in Reqs :
              r # << >> =>
                  /\ ~Result(r).ok
                  /\ Result(r).g.Board = game.Board
                  /\ Result(r).g.Moves = game.Moves

(***************************************************************************)
(* The winner's checkers.                                                  *)
(***************************************************************************)
\* All checkers of player w are on w's home slot of board: none is left on
\* a point or on a bar.
BorneOff(board, w) ==
    /\ PlayerCheckers(board[HomeOf(w)], w) = CheckersPerSide
    /\ \A s \in Points \cup Bars : PlayerCheckers(board[s], w) = 0

Vacant == client1 = 0 \/ client2 = 0

\* The dice, Board, Moves, Turn and Winner of g.
Progress(g) == <<g.Roll1, g.Roll2, g.Roll3, g.Board, g.Moves, g.Turn, g.Winner>>

\* The move lists tried on a game with a vacant seat: those of the current
\* position, whose legal moves AddMoves does not get to compute.
VacantReqs == Requests(game, IF LegalMovesPanics(game) THEN << >> ELSE Legal)

\* C35: while a seat is empty (no second client yet, or a client removed),
\* roll by either player returns false and AddMoves of any move list returns
\* false, and both leave the dice, Board, Moves, Turn and Winner as they are.
C35_VacantSeat ==
    (~panicked /\ Vacant) =>
        /\ \A player \in Players, d1 \in Faces, d2 \in Faces :
              LET r == rollDice(game, client1, client2, player, d1, d2)
              IN  ~r.ok /\ Progress(r.g) = Progress(game)
        /\ \A moves \in VacantReqs :
              LET res == addMovesFrom(game, Legal, moves, FALSE)
              IN  ~res.ok /\ Progress(res.g) = Progress(game)

\* A client has left in the middle of a turn that has rolled and has a move
\* to play.
C35_Witness ==
    /\ Sound /\ Vacant /\ leaves > 0
    /\ InTurn /\ Rolled /\ game.Winner = 0
    /\ Legal # << >>
    /\ ~addMovesFrom(game, Legal, <<Legal[1]>>, FALSE).ok

(***************************************************************************)
(* Two seats, two clients.                                                 *)
(***************************************************************************)
\* C36: after any addClient and removeClient calls, client1 and client2 are
\* different clients whenever both seats are occupied: a client that is
\* already seated is not given the other seat.
C36_DistinctSeats ==
    (client1 # 0 /\ client2 # 0) => client1 # client2

(***************************************************************************)
(* Reset of a finished game.                                               *)
(***************************************************************************)
ResetStep == resets' = resets + 1

\* C37: Reset of a game with a Winner leaves Winner = 0, so that with both
\* players seated the initiative roll of either player is accepted again
\* instead of being turned away by the finished-game guard.
C37_ResetPlayable ==
    [][(ResetStep /\ game.Winner # 0) =>
          /\ game'.Winner = 0
          /\ (client1 # 0 /\ client2 # 0) =>
                \A player \in Players, d \in Faces :
                   rollDice(game', client1, client2, player, d, d).ok]_vars

(***************************************************************************)
(* Re-seating.                                                             *)
(***************************************************************************)
\* Once latched, the allowed names stay as they are.
AllowedKept ==
    [][Latched => allowed1' = allowed1 /\ allowed2' = allowed2]_vars

\* Every seated client sits in the seat of its name.
SeatedByName ==
    Latched =>
        /\ client1 # 0 => ClientName(client1) = allowed1
        /\ client2 # 0 => ClientName(client2) = allowed2

\* C38: once latched at match start the allowed names never change, and a
\* client that joins again is seated only in the seat whose allowed name is
\* its name (allowed1 as player 1, allowed2 as player 2), also when both
\* seats had been vacated.
C38_ReseatIdentity == AllowedKept /\ []SeatedByName

=============================================================================
